---- MODULE Spec2Model ----
(***************************************************************************)
(* Model of the evohome Gateway (src/evohome/__init__.py): the command     *)
(* queue, the dispatcher _dispatch_pkt driven by port_writer, the pending  *)
(* reply buffer and the inbound path _process_pkt / _process_payload.      *)
(*                                                                         *)
(* All tasks run on one asyncio event loop, so a task is only interleaved  *)
(* with another one while it is suspended at an await.  The dispatcher's   *)
(* position is pc; the other tasks (reader, relay, clock, serial line)     *)
(* take steps only while pc is one of the dispatcher's await points.       *)
(* Time is counted in milliseconds.  The code reads the clock only in      *)
(* the RQ 0404 arm of the dispatcher, and only to compare it with the two  *)
(* deadlines it computed from it there, so the clock is counted from the   *)
(* moment the dispatcher enters that arm.                                  *)
(***************************************************************************)
EXTENDS Integers, Sequences, FiniteSets, TLC

\* ---------------------------------------------------------------- bounds
MaxCmds == 2        \* commands put on the queue in one run
Backlog == 199      \* commands already on the queue when a run of SpecQueue
                    \* starts
MaxLines == 2       \* lines of the replayed file
MaxSignals == 1     \* signals received in one run
MaxWrites == 4      \* writes remembered by the duty cycle
MaxClock == 120000  \* the clock of the duty cycle stops here, in ms
MaxCode == 16       \* the codes a scan script walks through: range(0x5000)
                    \* and range(0x80) are cut to range(MaxCode)
MaxTests == 2       \* wrapped tests run one after the other

\* ------------------------------------------------------ program constants
QUEUE_MAXSIZE == 200    \* PriorityQueue(maxsize=200)
TIMEOUT_1 == 2500       \* timedelta(seconds=2.5), in ms
TIMEOUT_2 == 1000       \* timedelta(seconds=1), in ms
SLEEP == 5              \* asyncio.sleep(0.005), in ms
DONT_CREATE_MESSAGES == 3   \* raw_output tiers
DONT_CREATE_ENTITIES == 2
DONT_UPDATE_ENTITIES == 1

\* ----------------------------------------------------------------- devices
CTL == [class |-> "01", serial |-> "145038"]
OTH == [class |-> "01", serial |-> "222222"]
HGI == [class |-> "18", serial |-> "013393"]
NON == [class |-> "--", serial |-> "------"]
TRV == [class |-> "04", serial |-> "000001"]
FAN == [class |-> "30", serial |-> "111111"]
FAN2 == [class |-> "30", serial |-> "222222"]

\* ---------------------------------------------------------------- commands
QOS_SCAN == [priority |-> "LOW", retries |-> 0]
QOS_HIGH == [priority |-> "HIGH", retries |-> 3]

\* the number of fields in which two records of the same shape differ
Differ(r, s) == Cardinality({f \in DOMAIN r : r[f] # s[f]})

\* a command as put on the queue; ctl: str(cmd).startswith("!")
CtlCmd == [ctl |-> TRUE, verb |-> "!V", code |-> "----", dest |-> NON,
           qos |-> QOS_SCAN]
GetSchedule == [ctl |-> FALSE, verb |-> "RQ", code |-> "0404", dest |-> CTL,
                qos |-> QOS_HIGH]
RfCmds == [ctl : {FALSE}, verb : {"RQ"}, code : {"0404", "0418"},
           dest : {CTL, OTH}, qos : {QOS_SCAN, QOS_HIGH}]
\* the commands put on the queue: an adapter control line, a schedule
\* request, and every request that differs from it in one field
CmdInputs == {CtlCmd} \cup {c \in RfCmds : Differ(c, GetSchedule) <= 1}

\* ----------------------------------------------------------------- packets
\* a packet: its three addresses (src and dst are the first two), verb and
\* code; is_valid: Packet.is_valid; msg_error: the exception Message(pkt)
\* raises; msg_valid: Message.is_valid; evo_error: the exception
\* _create_entities and _update_entities raise, as <<where, class>>
NoError == "none"
Pkts == [src : {CTL, OTH, HGI}, dst : {HGI}, addr2 : {NON},
         verb : {"RP", " I"}, code : {"0404", "0418"}, is_valid : BOOLEAN,
         msg_error : {NoError}, msg_valid : BOOLEAN,
         evo_error : {<<"none", NoError>>}]
ScheduleReply == [src |-> CTL, dst |-> HGI, addr2 |-> NON, verb |-> "RP",
                  code |-> "0404", is_valid |-> TRUE, msg_error |-> NoError,
                  msg_valid |-> TRUE, evo_error |-> <<"none", NoError>>]
\* the packets received: the reply to the schedule request and every packet
\* that differs from it in one field
PktInputs == {p \in Pkts : Differ(p, ScheduleReply) <= 1}
NoPkt == [src |-> NON, dst |-> NON, addr2 |-> NON, verb |-> "--",
          code |-> "----", is_valid |-> FALSE, msg_error |-> NoError,
          msg_valid |-> FALSE, evo_error |-> <<"none", NoError>>]

\* what became of a received packet
Rx(p, b, a, l, t) ==
    [pkt |-> p, pending |-> b, acked |-> a, logged |-> l, travel |-> t]

\* no call of _process_pkt has just returned
NoRx == Rx(NoPkt, 0, 0, FALSE, "none")

\* no line has been read from the file
NoLine == [stamp |-> <<>>, frame |-> NoPkt]

\* a mapping without entries, and a known_devices file that was not written
EmptyMap == [d \in {} |-> {}]
NoFile == [written |-> FALSE, data |-> EmptyMap]

\* no Gateway has been constructed, and no function has been called
NoConfig == [serial_port |-> FALSE, input_file |-> FALSE,
             probe_system |-> FALSE, execute_cmd |-> FALSE, raw_output |-> 0,
             message_log |-> FALSE, known_devices |-> FALSE,
             listen_only |-> FALSE, made |-> FALSE]
NoCall == [fn |-> "none", args |-> <<>>, ret |-> FALSE]

VARIABLES
    input_file,         \* config["input_file"] after __init__: replay a file
    probe_system,       \* config["probe_system"]
    raw_output,         \* config["raw_output"], 0..3
    device_whitelist,   \* self.device_whitelist
    device_blacklist,   \* self.device_blacklist
    cmds,               \* every Command created so far; its index is its
                        \* enqueue order
    cmd_que,            \* self.cmd_que: the indices still on the queue
    buffer,             \* self._buffer: deque of commands awaiting a reply
    pc,                 \* position of port_writer / _dispatch_pkt
    cmd,                \* _dispatch_pkt's local cmd (0: none)
    timeout_1,          \* _dispatch_pkt's local timeout_1
    timeout_2,          \* _dispatch_pkt's local timeout_2
    now,                \* dt.now(), counted from the start of the RQ 0404 arm
    in_waiting,         \* serial.in_waiting (0, or 1 for "not zero")
    puts,               \* the times at which put_pkt wrote the current
                        \* command to the serial port
    rx,                 \* the packet of the call of _process_pkt that has
                        \* just returned, and what became of it: the pending
                        \* command it cleared, whether it was logged and how
                        \* far it went; NoRx after any other step
    written,            \* history: commands written to the serial port
    overtaken,          \* history: commands that were on the queue when the
                        \* dispatcher took a command it then did not write
    open,               \* history: requests written that have neither been
                        \* answered by their destination nor given up
    acked,              \* history: commands whose pending entry an RP cleared
    gaveup,             \* history: commands the dispatcher gave up on
    done,               \* history: commands for which task_done() was called
    n_put,              \* the number of puts on the queue attempted so far
    put_error,          \* what the last put on the queue gave its caller:
                        \* "none" or "Full"
    database,           \* config["database"] is set: self._output_db
    config_device_whitelist,    \* config["device_whitelist"]
    rpc,                \* where the reader task is: "get" (waiting for the
                        \* next packet), "execute" or "commit" (suspended in
                        \* _process_pkt), "dead" (an exception ended it)
    pkt,                \* the packet of the reader's last call of
                        \* _process_pkt
    calls,              \* what that call has done so far, in order
    ts_pkt,             \* the line file_reader has read last
    n_lines,            \* the number of lines file_reader has read
    spc,                \* where start() is: "tasks" (awaiting its tasks),
                        \* "commit" or "close" (suspended in cleanup),
                        \* "returned", "raised" or "cancelled"
    cleaned,            \* the callers of cleanup so far, in order
    archive,            \* the connection self._output_db: "none", "open" or
                        \* "closed"
    config_known_devices,   \* config["known_devices"] is set
    known_devices,      \* self.known_devices: device id -> attributes
    saved,              \* the known_devices file as cleanup wrote it
    evo_devices,        \* self.evo.devices as cleanup found it
    sigs,               \* the tasks running _signal_handler, one per signal
                        \* received
    config,             \* the config dict handed to Gateway() and what
                        \* __init__ made of it
    call,               \* the last call of a function of the protocol
                        \* package: its arguments and its result
    clock,              \* the time in ms, for the duty cycle
    sent,               \* the times of the writes in the last 60 s
    max_duty_cycle,     \* the duty-cycle ceiling, in units of 1/10000
    script,             \* the task spawn_scripts created for a script: its
                        \* name, where it is and its loop variable
    sends,              \* the commands gwy.send_cmd was called with, in order
    wrapper,            \* the wrapper of rf_net_factory around a test: where
                        \* it is, the state of rf and of gwys, and what the
                        \* test body did
    left                \* what each wrapped test that has ended left behind

cfg == <<input_file, probe_system, raw_output, device_whitelist,
         device_blacklist>>
dsp == <<pc, cmd, timeout_1, timeout_2>>
hist == <<written, overtaken, open, acked, gaveup, done>>
enq == <<n_put, put_error>>
inb == <<database, config_device_whitelist, rpc, pkt, calls>>
life == <<ts_pkt, n_lines, spc, cleaned, archive, config_known_devices,
          known_devices, saved, evo_devices, sigs>>
tools == <<script, sends, wrapper, left>>
fns == <<config, call, tools>>
duty == <<clock, sent, max_duty_cycle>>
ext == <<life, fns, duty>>
vars == <<cfg, cmds, cmd_que, buffer, dsp, now, in_waiting, puts, rx,
          hist, enq, inb, ext>>

\* config["listen_only"] as __init__ leaves it
listen_only == (~probe_system) \/ input_file

\* destination is the port manager (TRUE) or None (FALSE)
destination == ~input_file

\* ------------------------------------------------------- the command queue
Importance(p) == CASE p = "HIGH" -> 2 [] p = "LOW" -> 1

\* Command ordering: more important first, then earlier enqueue first
CmdLess(a, b) ==
    \/ Importance(cmds[a].qos.priority) > Importance(cmds[b].qos.priority)
    \/ /\ cmds[a].qos.priority = cmds[b].qos.priority
       /\ a < b

\* variant: the queue is a plain FIFO queue.Queue
QueueGetFifo(q) == CHOOSE a \in q : \A b \in q : a <= b

\* self.cmd_que.get(): the least item of the priority queue
QueueGet(q) == CHOOSE a \in q : \A b \in q \ {a} : CmdLess(a, b)

\* -------------------------------------------------------------- dispatcher
\* variant: the second arm does not test listen_only
BranchNoListen(c) ==
    IF destination /\ c.ctl THEN "ctl"
    ELSE IF ~destination THEN "pass"
    ELSE IF c.verb = "RQ" /\ c.code = "0404" THEN "rq"
    ELSE "send"

\* variant: the listen_only arm comes before the "!" arm
BranchListenFirst(c) ==
    IF (~destination) \/ listen_only THEN "pass"
    ELSE IF c.ctl THEN "ctl"
    ELSE IF c.verb = "RQ" /\ c.code = "0404" THEN "rq"
    ELSE "send"

\* the arm of the if/elif chain of _dispatch_pkt that a command takes
Branch(c) ==
    IF destination /\ c.ctl THEN "ctl"
    ELSE IF (~destination) \/ listen_only THEN "pass"
    ELSE IF c.verb = "RQ" /\ c.code = "0404" THEN "rq"
    ELSE "send"

\* timeout_1 = dt.now() + timedelta(seconds=2.5)
Timeout1(t) == t + TIMEOUT_1

\* variant: the reply window is not added to the clock
Timeout2Now(t) == t

\* timeout_2 = dt.now() + timedelta(seconds=1)
Timeout2(t) == t + TIMEOUT_2

\* a request as the claims count it: an RQ sent over RF
IsRequest(c) == (~c.ctl) /\ c.verb = "RQ"

\* destination.put_pkt(cmd): the command goes out on the serial port
PutPkt(c) ==
    /\ puts' = Append(puts, now)
    /\ written' = written \cup {c}
    /\ open' = IF IsRequest(cmds[c]) THEN open \cup {c} ELSE open

\* the dispatcher is suspended at an await at these positions
AwaitPcs == {"idle", "put_ctl", "put_rq", "sleep", "put_cmd"}

\* the writer task is suspended at an await, or has been cancelled: another
\* task can run
Suspended == pc \in AwaitPcs \cup {"cancelled"}

TypeOK ==
    /\ input_file \in BOOLEAN /\ probe_system \in BOOLEAN
    /\ raw_output \in 0..3
    /\ cmd_que \subseteq 1..Len(cmds)
    /\ pc \in AwaitPcs \cup {"loop", "branch", "outer", "task_done", "cancelled",
                               "blocked"}
    /\ now \in 0..(2 * TIMEOUT_1)
    /\ in_waiting \in {0, 1}
    /\ n_put \in 0..MaxCmds
    /\ put_error \in {"none", "Full"}
    /\ database \in BOOLEAN /\ config_device_whitelist \in BOOLEAN
    /\ rpc \in {"get", "execute", "commit", "dead", "eof", "cancelled"}
    /\ sigs \in Seq([sig : {"SIGINT", "SIGTERM", "SIGHUP", "SIGUSR1", "SIGUSR2"},
                     at : {"new", "commit", "close", "done", "dead",
                           "cancelled"}])
    /\ Len(sigs) <= MaxSignals
    /\ n_lines \in 0..MaxLines
    /\ spc \in {"tasks", "commit", "close", "returned", "raised", "cancelled"}
    /\ archive \in {"none", "open", "closed"}

\* start() awaits its tasks; no line was read, no signal received, cleanup
\* has not run and there is no known_devices file
LifeInit ==
    /\ ts_pkt = NoLine
    /\ n_lines = 0
    /\ spc = "tasks"
    /\ cleaned = <<>>
    /\ archive = (IF database THEN "open" ELSE "none")
    /\ config_known_devices = FALSE
    /\ known_devices = EmptyMap
    /\ saved = NoFile
    /\ evo_devices = {}
    /\ sigs = <<>>

\* no script has been spawned
NoScript == [name |-> "none", pc |-> "none", code |-> 0]

\* no wrapped test is running
NoNet == [pc |-> "idle", rf |-> "none", gwys |-> <<"none", "none">>,
          result |-> "none"]

ToolsInit ==
    /\ script = NoScript
    /\ sends = <<>>
    /\ wrapper = NoNet
    /\ left = <<>>

FnsInit ==
    /\ config = NoConfig
    /\ call = NoCall
    /\ ToolsInit

\* MAX_DUTY_CYCLE = 1.0, in units of 1/10000
MAX_DUTY_CYCLE == 10000

\* nothing has been written yet, and the duty cycle is not limited
DutyInit ==
    /\ clock = 0
    /\ sent = <<>>
    /\ max_duty_cycle = MAX_DUTY_CYCLE

Init ==
    /\ input_file \in BOOLEAN
    /\ probe_system \in BOOLEAN
    /\ raw_output \in 0..3
    /\ device_whitelist = {}
    /\ device_blacklist = {}
    /\ cmds = <<>>
    /\ cmd_que = {}
    /\ buffer = <<>>
    /\ pc = "idle"
    /\ cmd = 0
    /\ timeout_1 = 0
    /\ timeout_2 = 0
    /\ now = 0
    /\ in_waiting = 0
    /\ puts = <<>>
    /\ written = {}
    /\ overtaken = {}
    /\ open = {}
    /\ rx = NoRx
    /\ acked = {}
    /\ gaveup = {}
    /\ done = {}
    /\ n_put = 0
    /\ put_error = "none"
    /\ database = FALSE
    /\ config_device_whitelist = FALSE
    /\ rpc = "get"
    /\ pkt = NoPkt
    /\ calls = <<>>
    /\ LifeInit
    /\ FnsInit
    /\ DutyInit

\* variant: PriorityQueue() without a maxsize, which never is full
QueueNeverFull(q) == FALSE

\* Queue.full(): 0 < self.maxsize <= self._qsize()
QueueFull(q) == 0 < QUEUE_MAXSIZE /\ QUEUE_MAXSIZE <= Cardinality(q)

\* enqueue(cmd): the command goes on the queue, or the caller gets QueueFull
\* and the queue stays as it is
PutNowait(c) ==
    IF QueueFull(cmd_que)
    THEN /\ put_error' = "Full"
         /\ UNCHANGED <<cmds, cmd_que>>
    ELSE /\ put_error' = "none"
         /\ cmds' = Append(cmds, c)
         /\ cmd_que' = cmd_que \cup {Len(cmds) + 1}

\* another task puts a command on the queue (the relay, a script)
Enqueue(c) ==
    /\ pc \in AwaitPcs
    /\ n_put < MaxCmds
    /\ n_put' = n_put + 1
    /\ PutNowait(c)
    /\ rx' = NoRx
    /\ UNCHANGED <<cfg, buffer, dsp, now, in_waiting, puts, hist, inb, ext>>

\* variant: the writer dispatches while bytes are waiting
PortWriterBusy ==
    /\ pc = "idle"
    /\ ~input_file
    /\ in_waiting # 0
    /\ pc' = "loop"
    /\ rx' = NoRx
    /\ UNCHANGED <<enq, inb, ext>>
    /\ UNCHANGED <<cfg, cmds, cmd_que, buffer, cmd, timeout_1, timeout_2, now,
                   in_waiting, puts, hist>>

\* proc_pkts_from_port.port_writer wakes up from its sleep
PortWriter ==
    /\ pc = "idle"
    /\ ~input_file
    /\ in_waiting = 0
    /\ pc' = "loop"
    /\ rx' = NoRx
    /\ UNCHANGED <<enq, inb, ext>>
    /\ UNCHANGED <<cfg, cmds, cmd_que, buffer, cmd, timeout_1, timeout_2, now,
                   in_waiting, puts, hist>>

\* proc_pkts_from_file.port_writer wakes up from its sleep
FileWriter ==
    /\ pc = "idle"
    /\ input_file
    /\ pc' = "loop"
    /\ rx' = NoRx
    /\ UNCHANGED <<enq, inb, ext>>
    /\ UNCHANGED <<cfg, cmds, cmd_que, buffer, cmd, timeout_1, timeout_2, now,
                   in_waiting, puts, hist>>

\* variant: the dispatcher reads the least command and leaves it on the queue
LoopPeek ==
    /\ pc = "loop"
    /\ IF cmd_que = {}
       THEN /\ pc' = "idle"
            /\ UNCHANGED cmd
       ELSE /\ cmd' = QueueGet(cmd_que)
            /\ pc' = "branch"
    /\ rx' = NoRx
    /\ UNCHANGED <<enq, inb, ext>>
    /\ UNCHANGED <<cfg, cmds, cmd_que, buffer, timeout_1, timeout_2, now,
                   in_waiting, puts, hist>>

\* variant: the loop does not test the queue
QueueEmptyNever(q) == FALSE

\* Queue.empty()
QueueEmpty(q) == q = {}

\* while not self.cmd_que.empty(): cmd = self.cmd_que.get(); a get() on an
\* empty queue blocks the thread of the event loop
Loop ==
    /\ pc = "loop"
    /\ IF QueueEmpty(cmd_que)
       THEN /\ pc' = "idle"
            /\ UNCHANGED <<cmd, cmd_que>>
       ELSE IF cmd_que = {}
       THEN /\ pc' = "blocked"
            /\ UNCHANGED <<cmd, cmd_que>>
       ELSE /\ cmd' = QueueGet(cmd_que)
            /\ cmd_que' = cmd_que \ {cmd'}
            /\ pc' = "branch"
    /\ rx' = NoRx
    /\ UNCHANGED <<enq, inb, ext>>
    /\ UNCHANGED <<cfg, cmds, buffer, timeout_1, timeout_2, now, in_waiting,
                   puts, hist>>

\* if destination is not None and str(cmd).startswith("!"): put_pkt
SendCtl ==
    /\ pc = "branch"
    /\ Branch(cmds[cmd]) = "ctl"
    /\ PutPkt(cmd)
    /\ pc' = "put_ctl"
    /\ rx' = NoRx
    /\ UNCHANGED <<enq, inb, ext>>
    /\ UNCHANGED <<cfg, cmds, cmd_que, buffer, cmd, timeout_1, timeout_2, now,
                   in_waiting, overtaken, acked, gaveup, done>>

\* elif destination is None or listen_only: pass
Pass ==
    /\ pc = "branch"
    /\ Branch(cmds[cmd]) = "pass"
    /\ pc' = "task_done"
    /\ overtaken' = overtaken \cup cmd_que
    /\ rx' = NoRx
    /\ UNCHANGED <<enq, inb, ext>>
    /\ UNCHANGED <<cfg, cmds, cmd_que, buffer, cmd, timeout_1, timeout_2, now,
                   in_waiting, puts, written, open, acked, gaveup, done>>

\* elif RQ 0404: self._buffer.append(cmd); timeout_1 = now + 2.5 s
StartRq ==
    /\ pc = "branch"
    /\ Branch(cmds[cmd]) = "rq"
    /\ buffer' = Append(buffer, cmd)
    /\ timeout_1' = Timeout1(now)
    /\ pc' = "outer"
    /\ rx' = NoRx
    /\ UNCHANGED <<enq, inb, ext>>
    /\ UNCHANGED <<cfg, cmds, cmd_que, cmd, timeout_2, now, in_waiting, puts,
                   hist>>

\* variant: giving up also empties the command queue
OuterDrain ==
    /\ pc = "outer"
    /\ IF now < timeout_1
       THEN /\ PutPkt(cmd)
            /\ pc' = "put_rq"
            /\ UNCHANGED <<buffer, gaveup, cmd_que>>
       ELSE /\ buffer' = <<>>
            /\ cmd_que' = {}
            /\ gaveup' = gaveup \cup {cmd}
            /\ open' = open \ {cmd}
            /\ pc' = "task_done"
            /\ UNCHANGED <<puts, written>>
    /\ rx' = NoRx
    /\ UNCHANGED <<enq, inb, ext>>
    /\ UNCHANGED <<cfg, cmds, cmd, timeout_1, timeout_2, now,
                   in_waiting, overtaken, acked, done>>

\* while dt.now() < timeout_1: put_pkt ... else: self._buffer.clear()
Outer ==
    /\ pc = "outer"
    /\ IF now < timeout_1
       THEN /\ PutPkt(cmd)
            /\ pc' = "put_rq"
            /\ UNCHANGED <<buffer, gaveup>>
       ELSE /\ buffer' = <<>>
            /\ gaveup' = gaveup \cup {cmd}
            /\ open' = open \ {cmd}
            /\ pc' = "task_done"
            /\ UNCHANGED <<puts, written>>
    /\ rx' = NoRx
    /\ UNCHANGED <<enq, inb, ext>>
    /\ UNCHANGED <<cfg, cmds, cmd_que, cmd, timeout_1, timeout_2, now,
                   in_waiting, overtaken, acked, done>>

\* variant: the dispatcher does not wait for the buffer to be cleared
PutRqReturnNoWait ==
    /\ pc = "put_rq"
    /\ timeout_2' = Timeout2(now)
    /\ pc' = "task_done"
    /\ rx' = NoRx
    /\ UNCHANGED <<enq, inb, ext>>
    /\ UNCHANGED <<cfg, cmds, cmd_que, buffer, cmd, timeout_1, now,
                   in_waiting, puts, hist>>

\* put_pkt returns: timeout_2 = now + 1 s; while len(self._buffer) != 0
PutRqReturn ==
    /\ pc = "put_rq"
    /\ timeout_2' = Timeout2(now)
    /\ pc' = IF Len(buffer) # 0 THEN "sleep" ELSE "task_done"
    /\ rx' = NoRx
    /\ UNCHANGED <<enq, inb, ext>>
    /\ UNCHANGED <<cfg, cmds, cmd_que, buffer, cmd, timeout_1, now,
                   in_waiting, puts, hist>>

\* sleep(0.005) returns: if now > timeout_2: break; else test the buffer
SleepReturn ==
    /\ pc = "sleep"
    /\ pc' = IF now > timeout_2 THEN "outer"
             ELSE IF Len(buffer) # 0 THEN "sleep" ELSE "task_done"
    /\ rx' = NoRx
    /\ UNCHANGED <<enq, inb, ext>>
    /\ UNCHANGED <<cfg, cmds, cmd_que, buffer, cmd, timeout_1, timeout_2, now,
                   in_waiting, puts, hist>>

\* else: await destination.put_pkt(cmd)
SendCmd ==
    /\ pc = "branch"
    /\ Branch(cmds[cmd]) = "send"
    /\ PutPkt(cmd)
    /\ pc' = "put_cmd"
    /\ rx' = NoRx
    /\ UNCHANGED <<enq, inb, ext>>
    /\ UNCHANGED <<cfg, cmds, cmd_que, buffer, cmd, timeout_1, timeout_2, now,
                   in_waiting, overtaken, acked, gaveup, done>>

\* the put_pkt of the "!" arm or of the last arm returns
PutReturn ==
    /\ pc \in {"put_ctl", "put_cmd"}
    /\ pc' = "task_done"
    /\ rx' = NoRx
    /\ UNCHANGED <<enq, inb, ext>>
    /\ UNCHANGED <<cfg, cmds, cmd_que, buffer, cmd, timeout_1, timeout_2, now,
                   in_waiting, puts, hist>>

\* variant: an if in place of the while, the call returns after one command
TaskDoneReturn ==
    /\ pc = "task_done"
    /\ done' = done \cup {cmd}
    /\ pc' = "idle"
    /\ cmd' = 0
    /\ timeout_1' = 0
    /\ timeout_2' = 0
    /\ now' = 0
    /\ puts' = <<>>
    /\ rx' = NoRx
    /\ UNCHANGED <<enq, inb, ext>>
    /\ UNCHANGED <<cfg, cmds, cmd_que, buffer, in_waiting, written,
                   overtaken, open, acked, gaveup>>

\* self.cmd_que.task_done(); the locals of this iteration are dead and the
\* clock is counted anew
TaskDone ==
    /\ pc = "task_done"
    /\ done' = done \cup {cmd}
    /\ pc' = "loop"
    /\ cmd' = 0
    /\ timeout_1' = 0
    /\ timeout_2' = 0
    /\ now' = 0
    /\ puts' = <<>>
    /\ rx' = NoRx
    /\ UNCHANGED <<enq, inb, ext>>
    /\ UNCHANGED <<cfg, cmds, cmd_que, buffer, in_waiting, written,
                   overtaken, open, acked, gaveup>>

\* await asyncio.sleep(0.005): the dispatcher polls the buffer every 5 ms.
\* A poll before the deadline that finds the buffer as it was leaves the
\* state as it is, so the clock moves straight to the first poll after
\* timeout_2 (the polls are 5 ms apart, counted from the write).
Sleep ==
    /\ pc = "sleep"
    /\ now <= timeout_2
    /\ now' = timeout_2 + SLEEP
    /\ rx' = NoRx
    /\ UNCHANGED <<enq, inb, ext>>
    /\ UNCHANGED <<cfg, cmds, cmd_que, buffer, dsp, in_waiting, puts, 
                   hist>>

\* bytes arrive at the adapter, or the reader has drained them
SerialBytes ==
    /\ pc \in AwaitPcs
    /\ in_waiting' = 1 - in_waiting
    /\ rx' = NoRx
    /\ UNCHANGED <<enq, inb, ext>>
    /\ UNCHANGED <<cfg, cmds, cmd_que, buffer, dsp, now, puts, hist>>

\* ------------------------------------------------------------ inbound path
\* the device ids in pkt.packet: a colon occurs only in its three addresses
Addrs(p) == {p.src, p.dst, p.addr2}

\* variant: the filter also lets every reply through
has_wanted_reply(p, wl, bl) ==
    IF p.verb = "RP" \/ \E a \in Addrs(p) : a.class = "18" THEN TRUE
    ELSE IF wl # {} THEN \E d \in wl : d \in Addrs(p)
    ELSE ~ \E d \in bl : d \in Addrs(p)

\* has_wanted_device(pkt, dev_whitelist, dev_blacklist)
has_wanted_device(p, wl, bl) ==
    IF \E a \in Addrs(p) : a.class = "18" THEN TRUE
    ELSE IF wl # {} THEN \E d \in wl : d \in Addrs(p)
    ELSE ~ \E d \in bl : d \in Addrs(p)

\* cmd = self._buffer.copy().pop(), when the buffer is not empty (0: empty)
Pending == IF Len(buffer) # 0 THEN buffer[Len(buffer)] ELSE 0

\* variant: a message of any verb with the command's code
IsReplyAnyVerb(p, c) == p.code = c.code

\* if msg.verb == "RP" and msg.code == cmd.code
IsReply(p, c) == p.verb = "RP" /\ p.code = c.code

\* the pending command an inbound message clears (0: none)
Acks(p) == IF Pending # 0 /\ IsReply(p, cmds[Pending]) THEN Pending ELSE 0

\* how far a valid message travels: "none", "create" or "update"
Travel(p) ==
    IF raw_output > 1 THEN "none"
    ELSE IF p.src.class = "18" THEN "none"
    ELSE IF raw_output > 0 THEN "create"
    ELSE "update"

\* the reply a request is waiting for, as the protocol defines it: an RP
\* with the request's code from the request's destination
Answers(p, c) == p.verb = "RP" /\ p.code = c.code /\ p.src = c.dest

\* _process_pkt(raw_pkt) followed by _process_payload(pkt)
ProcessPkt(p) ==
    /\ pc \in AwaitPcs
    /\ IF ~p.is_valid \/ ~has_wanted_device(p, device_whitelist, device_blacklist)
       THEN /\ rx' = Rx(p, Pending, 0, FALSE, "none")
            /\ UNCHANGED <<buffer, acked, open>>
       ELSE IF raw_output > 2 \/ ~p.msg_valid
       THEN /\ rx' = Rx(p, Pending, 0, TRUE, "none")
            /\ UNCHANGED <<buffer, acked, open>>
       ELSE /\ rx' = Rx(p, Pending, Acks(p), TRUE, Travel(p))
            /\ buffer' = IF Acks(p) # 0 THEN <<>> ELSE buffer
            /\ acked' = IF Acks(p) # 0 THEN acked \cup {Acks(p)} ELSE acked
            /\ open' = {c \in open : ~Answers(p, cmds[c])}
    /\ UNCHANGED <<cfg, cmds, cmd_que, dsp, now, in_waiting, puts, written,
                   overtaken, gaveup, done, enq, inb, ext>>

\* ------------------------------------------- the reader, await by await
\* the exception classes the decoder and the entity store may raise
ExcClasses == {"AssertionError", "NotImplementedError", "LookupError",
               "TypeError", "ValueError", "AttributeError"}

\* the except clauses around Message(pkt)
CaughtDecode == {"AssertionError", "NotImplementedError", "LookupError",
                 "TypeError", "ValueError"}

\* the except clauses around _create_entities() and _update_entities()
CaughtEntity == {"AssertionError", "LookupError", "TypeError", "ValueError"}

\* the packets read from the port or the file
Frames == [src : {CTL, FAN, HGI, TRV}, dst : {NON, HGI, CTL},
           addr2 : {NON, TRV, FAN2, CTL}, verb : {"RP", " I"},
           code : {"0404", "0418"}, is_valid : BOOLEAN,
           msg_error : {NoError} \cup ExcClasses, msg_valid : BOOLEAN,
           evo_error : {<<"none", NoError>>}
                          \cup ({"create", "update"} \X ExcClasses)]
KnownPkt == [ScheduleReply EXCEPT !.dst = NON, !.addr2 = TRV, !.verb = " I"]
NeighbourPkt == [KnownPkt EXCEPT !.src = FAN, !.addr2 = FAN2]
\* the reply to the schedule request, a packet of the controller, a packet
\* of a neighbour's devices, and every packet that differs from one of them
\* in one field
FrameInputs ==
    {p \in Frames :
        \E b \in {ScheduleReply, KnownPkt, NeighbourPkt} : Differ(p, b) <= 1}

\* the known_devices file: the devices it names, flagged as blacklisted or not
KnownInputs == SUBSET {[id |-> CTL, blacklist |-> FALSE],
                       [id |-> TRV, blacklist |-> TRUE],
                       [id |-> FAN, blacklist |-> TRUE]}

\* self.device_whitelist = [k for k, v in devices.items() if not v.get("blacklist")]
Whitelist(kd, enforce) ==
    IF enforce THEN {d.id : d \in {k \in kd : ~k.blacklist}} ELSE {}

\* variant: the blacklist is filled in whitelist mode as well
BlacklistBothModes(kd, enforce) == {d.id : d \in {k \in kd : k.blacklist}}

\* self.device_blacklist = [k for k, v in devices.items() if v.get("blacklist")]
Blacklist(kd, enforce) ==
    IF enforce THEN {} ELSE {d.id : d \in {k \in kd : k.blacklist}}

\* variant: the entities are updated at every tier that creates them
EntitiesUpdated(p) ==
    [calls |-> <<"create", "update">>, raised |-> NoError]

\* the try block around _create_entities() and _update_entities(): the calls
\* made and the exception that escapes
Entities(p) ==
    LET where == p.evo_error[1]
        exc == p.evo_error[2]
        handled == IF exc \in CaughtEntity THEN <<"exception">> ELSE <<>>
        escapes == IF exc \in CaughtEntity THEN NoError ELSE exc
    IN  IF where = "create"
        THEN [calls |-> <<"create">> \o handled, raised |-> escapes]
        ELSE IF raw_output > 0
        THEN [calls |-> <<"create">>, raised |-> NoError]
        ELSE IF where = "update"
        THEN [calls |-> <<"create", "update">> \o handled, raised |-> escapes]
        ELSE [calls |-> <<"create", "update">>, raised |-> NoError]

\* the message of the packet reaches the reply matching
Matched(p) == raw_output <= 2 /\ p.msg_error = NoError /\ p.msg_valid

\* variant: messages of the adapter reach the entity store as well
PayloadOfAny(p) ==
    IF raw_output > 2 \/ p.msg_error # NoError \/ ~p.msg_valid
    THEN [calls |-> <<>>, raised |-> NoError]
    ELSE IF raw_output > 1
    THEN [calls |-> <<"Message", "match">>, raised |-> NoError]
    ELSE [calls |-> <<"Message", "match">> \o Entities(p).calls,
          raised |-> Entities(p).raised]

\* _process_payload(pkt): the calls made and the exception that escapes
Payload(p) ==
    IF raw_output > 2
    THEN [calls |-> <<>>, raised |-> NoError]
    ELSE IF p.msg_error # NoError
    THEN IF p.msg_error \in CaughtDecode
         THEN [calls |-> <<"Message", "exception">>, raised |-> NoError]
         ELSE [calls |-> <<"Message">>, raised |-> p.msg_error]
    ELSE IF ~p.msg_valid
    THEN [calls |-> <<"Message">>, raised |-> NoError]
    ELSE IF raw_output > 1 \/ p.src.class = "18"
    THEN [calls |-> <<"Message", "match">>, raised |-> NoError]
    ELSE [calls |-> <<"Message", "match">> \o Entities(p).calls,
          raised |-> Entities(p).raised]

\* the end of _process_pkt: _process_payload(pkt), after the calls c
Finish(p, c) ==
    /\ calls' = c \o Payload(p).calls
                  \o (IF Payload(p).raised = NoError THEN <<>> ELSE <<"raise">>)
    /\ rpc' = IF Payload(p).raised = NoError THEN "get" ELSE "dead"
    /\ IF Matched(p)
       THEN /\ buffer' = IF Acks(p) # 0 THEN <<>> ELSE buffer
            /\ acked' = IF Acks(p) # 0 THEN acked \cup {Acks(p)} ELSE acked
            /\ open' = {k \in open : ~Answers(p, cmds[k])}
       ELSE UNCHANGED <<buffer, acked, open>>

\* _process_pkt(raw_pkt), up to its first await or to its end
process_pkt(p) ==
    /\ pkt' = p
    /\ IF ~p.is_valid \/ ~has_wanted_device(p, device_whitelist, device_blacklist)
       THEN /\ calls' = <<>>
            /\ rpc' = "get"
            /\ UNCHANGED <<buffer, acked, open>>
       ELSE IF database
       THEN /\ calls' = <<"log">>
            /\ rpc' = "execute"
            /\ UNCHANGED <<buffer, acked, open>>
       ELSE Finish(p, <<"log">>)

\* variant: the reader starts on the next packet without waiting for the
\* call of _process_pkt to return
ReaderGetEager(p) ==
    /\ Suspended
    /\ rpc # "dead"
    /\ process_pkt(p)
    /\ UNCHANGED <<cfg, cmds, cmd_que, dsp, now, in_waiting, puts, rx, written,
                   overtaken, gaveup, done, enq, ext, database,
                   config_device_whitelist>>

\* the reader gets a packet and calls _process_pkt, which runs to its first
\* await or to its end
ReaderGet(p) ==
    /\ Suspended
    /\ rpc = "get"
    /\ process_pkt(p)
    /\ UNCHANGED <<cfg, cmds, cmd_que, dsp, now, in_waiting, puts, rx, written,
                   overtaken, gaveup, done, enq, ext, database,
                   config_device_whitelist>>

\* variant: the row is not inserted
DbExecuteNothing ==
    /\ Suspended
    /\ rpc = "execute"
    /\ rpc' = "commit"
    /\ UNCHANGED <<cfg, cmds, cmd_que, buffer, dsp, now, in_waiting, puts, rx,
                   hist, enq, ext, database, config_device_whitelist, pkt, calls>>

\* await self._db_cursor.execute(INSERT_SQL, data) returns
DbExecute ==
    /\ Suspended
    /\ rpc = "execute"
    /\ calls' = Append(calls, "insert")
    /\ rpc' = "commit"
    /\ UNCHANGED <<cfg, cmds, cmd_que, buffer, dsp, now, in_waiting, puts, rx,
                   hist, enq, ext, database, config_device_whitelist, pkt>>

\* await self._output_db.commit() returns, and _process_payload(pkt) runs
DbCommit ==
    /\ Suspended
    /\ rpc = "commit"
    /\ Finish(pkt, Append(calls, "commit"))
    /\ UNCHANGED <<cfg, cmds, cmd_que, dsp, now, in_waiting, puts, rx, written,
                   overtaken, gaveup, done, enq, ext, database,
                   config_device_whitelist, pkt>>

\* ------------------------------------------------------------ file replay
Digits == {"0", "1", "2", "3", "4", "5", "6", "7", "8", "9"}

\* int(c) of a digit
DigitVal(c) ==
    CASE c = "0" -> 0 [] c = "1" -> 1 [] c = "2" -> 2 [] c = "3" -> 3
      [] c = "4" -> 4 [] c = "5" -> 5 [] c = "6" -> 6 [] c = "7" -> 7
      [] c = "8" -> 8 [] c = "9" -> 9

\* \d{4}-[01]\d-[0-3]\d(T| )[0-2]\d:[0-5]\d:[0-5]\d\.\d{6} ?
\* as the characters it takes at each position; the optional space at its
\* end does not matter to re.match, which matches a prefix
DTM_LONG_REGEX ==
    <<Digits, Digits, Digits, Digits, {"-"}, {"0", "1"}, Digits, {"-"},
      {"0", "1", "2", "3"}, Digits, {"T", " "}, {"0", "1", "2"}, Digits,
      {":"}, {"0", "1", "2", "3", "4", "5"}, Digits, {":"},
      {"0", "1", "2", "3", "4", "5"}, Digits, {"."},
      Digits, Digits, Digits, Digits, Digits, Digits>>

\* re.match(regex, str): a prefix of str matches
ReMatch(regex, str) ==
    /\ Len(str) >= Len(regex)
    /\ \A i \in 1..Len(regex) : str[i] \in regex[i]

\* int(str[a - 1:b]) of a string of digits
Num(str, a, b) ==
    LET RECURSIVE val(_)
        val(i) == IF i < a THEN 0 ELSE 10 * val(i - 1) + DigitVal(str[i])
    IN  val(b)

\* calendar: the days of a month
IsLeap(y) == y % 4 = 0 /\ (y % 100 # 0 \/ y % 400 = 0)
DaysIn(y, m) ==
    IF m = 2 THEN (IF IsLeap(y) THEN 29 ELSE 28)
    ELSE IF m \in {4, 6, 9, 11} THEN 30 ELSE 31

\* dt.fromisoformat(str) does not raise ValueError, for a str of the form
\* dddd?dd?dd?dd?dd?dd?dddddd: the fields are a date and a time of day
IsoValid(str) ==
    /\ Len(str) = 26
    /\ \A i \in 1..26 : i \notin {5, 8, 11, 14, 17, 20} => str[i] \in Digits
    /\ str[5] = "-" /\ str[8] = "-" /\ str[14] = ":" /\ str[17] = ":"
    /\ str[20] = "."
    /\ Num(str, 1, 4) >= 1
    /\ Num(str, 6, 7) \in 1..12
    /\ Num(str, 9, 10) \in 1..DaysIn(Num(str, 1, 4), Num(str, 6, 7))
    /\ Num(str, 12, 13) <= 23
    /\ Num(str, 15, 16) <= 59
    /\ Num(str, 18, 19) <= 59

\* the text of a line: its timestamp, a space and the packet, of which the
\* first characters are spelled out (RSSI, verb, sequence number)
VerbChars(v) ==
    CASE v = "RP" -> <<"R", "P">> [] v = " I" -> <<" ", "I">>
      [] v = "RQ" -> <<"R", "Q">> [] v = " W" -> <<" ", "W">>
      [] OTHER -> <<"-", "-">>
FrameHead(f) ==
    IF f = NoPkt THEN <<>>
    ELSE <<"0", "4", "5", " ">> \o VerbChars(f.verb)
           \o <<" ", "-", "-", "-", " ">>
LineText(l) == l.stamp \o <<" ">> \o FrameHead(l.frame)

\* ts_pkt[:26]
RawDatetime(l) ==
    SubSeq(LineText(l), 1, IF Len(LineText(l)) < 26 THEN Len(LineText(l))
                           ELSE 26)

\* Packet(ts_pkt[27:].strip()): the packet of the line when the timestamp
\* has 26 or 27 characters; otherwise the text is cut elsewhere and is not
\* a packet
RawPacket(l) ==
    IF l.frame = NoPkt \/ Len(l.stamp) \in {26, 27} THEN l.frame
    ELSE [l.frame EXCEPT !.is_valid = FALSE]

\* the exception the two tests of the timestamp raise
StampError(str) ==
    IF ~ReMatch(DTM_LONG_REGEX, str) THEN "AssertionError"
    ELSE IF ~IsoValid(str) THEN "ValueError"
    ELSE NoError

\* variant: except AssertionError
CaughtAssertion == {"AssertionError"}

\* except (AssertionError, ValueError)
CaughtStamp == {"AssertionError", "ValueError"}

\* the lines of the file
GoodStamp == <<"2", "0", "2", "0", "-", "1", "1", "-", "3", "0", "T",
               "1", "3", ":", "1", "5", ":", "0", "0", ".",
               "1", "2", "3", "4", "5", "6">>
\* a timestamp, every timestamp that differs from it in one character, and
\* timestamps that are shorter or longer: the date alone, without or with
\* fewer microseconds, with a seventh digit, with a time zone
StampInputs ==
    {[GoodStamp EXCEPT ![i] = c] :
        i \in {1, 5, 6, 7, 9, 10, 11, 12, 13, 15, 18, 20, 26},
        c \in {"0", "3", "9", " ", "t"}}
    \cup {SubSeq(GoodStamp, 1, n) : n \in {10, 19, 23, 25}}
    \cup {GoodStamp \o <<"7">>, GoodStamp \o <<"+", "0", "0", ":", "0", "0">>}
    \cup {[GoodStamp EXCEPT ![3] = y, ![6] = "0", ![7] = "2", ![9] = "2",
                            ![10] = "9"] : y \in {"2", "1"}}
\* a line with a packet of the controller, the same line with every other
\* timestamp, and with every other packet: one that cannot be decoded, one
\* whose entities cannot be created, none
CrashPkt == [KnownPkt EXCEPT !.evo_error = <<"create", "NotImplementedError">>]
LineInputs ==
    {[stamp |-> t, frame |-> KnownPkt] : t \in StampInputs}
    \cup {[stamp |-> GoodStamp, frame |-> f] :
             f \in {[KnownPkt EXCEPT !.is_valid = FALSE],
                     [KnownPkt EXCEPT !.msg_error = "ValueError"],
                     CrashPkt, NoPkt}}

\* file_reader takes the next line of the file, after its sleep
FileReader(l) ==
    /\ Suspended
    /\ rpc = "get"
    /\ input_file
    /\ n_lines < MaxLines
    /\ ts_pkt' = l
    /\ n_lines' = n_lines + 1
    /\ IF StampError(RawDatetime(l)) \in CaughtStamp
       THEN UNCHANGED <<rpc, pkt, calls, buffer, acked, open>>
       ELSE IF StampError(RawDatetime(l)) # NoError
       THEN /\ rpc' = "dead"
            /\ UNCHANGED <<pkt, calls, buffer, acked, open>>
       ELSE IF RawPacket(l) = NoPkt
       THEN UNCHANGED <<rpc, pkt, calls, buffer, acked, open>>
       ELSE process_pkt(RawPacket(l))
    /\ UNCHANGED <<cfg, cmds, cmd_que, dsp, now, in_waiting, puts, rx, written,
                   overtaken, gaveup, done, enq, database,
                   config_device_whitelist, spc, cleaned, archive,
                   config_known_devices, known_devices, saved, evo_devices,
                   sigs, fns, duty>>

\* the file has no more lines: file_reader returns
FileEof ==
    /\ Suspended
    /\ rpc = "get"
    /\ input_file
    /\ rpc' = "eof"
    /\ UNCHANGED <<cfg, cmds, cmd_que, buffer, dsp, now, in_waiting, puts, rx,
                   hist, enq, database, config_device_whitelist, pkt, calls,
                   life, fns, duty>>

\* ----------------------------------------------------------------- cleanup
\* the known_devices file as json.load gives it: device id -> attributes
KnownMap(kd) ==
    [d \in {k.id : k \in kd} |->
        [alias |-> "alias", blacklist |-> (CHOOSE k \in kd : k.id = d).blacklist]]

\* the entity store at the time of a cleanup: device id -> the attributes
\* cleanup reads
EvoInputs ==
    UNION {[ids -> [friendly_name : {"name"}, blacklist : {FALSE}]] :
              ids \in SUBSET {CTL, TRV}}

\* dict.update(): the entries of b replace or extend those of a
Update(a, b) ==
    [k \in DOMAIN a \cup DOMAIN b |-> IF k \in DOMAIN b THEN b[k] ELSE a[k]]

\* variant: only the devices already in the file are updated
UpdateKnownOnly(kd, ds) ==
    [d \in DOMAIN kd |-> IF d \in DOMAIN ds THEN Update(kd[d], ds[d]) ELSE kd[d]]

\* for d in self.evo.devices: update or add the entry of d
UpdateKnown(kd, ds) ==
    [d \in DOMAIN kd \cup DOMAIN ds |->
        IF d \notin DOMAIN ds THEN kd[d]
        ELSE IF d \in DOMAIN kd THEN Update(kd[d], ds[d])
        ELSE ds[d]]

\* the part of cleanup after the database: the known_devices file is
\* written from the entity store ds, and the state is printed
CleanupFile(ds) ==
    IF config_known_devices
    THEN /\ evo_devices' = DOMAIN ds
         /\ known_devices' = UpdateKnown(known_devices, ds)
         /\ saved' = [written |-> TRUE, data |-> known_devices']
    ELSE UNCHANGED <<evo_devices, known_devices, saved>>

\* the connection closes while a task awaits self._output_db.close()
ArchiveCloses ==
    /\ archive = "open"
    /\ \/ spc = "close"
       \/ \E i \in 1..Len(sigs) : sigs[i].at = "close"
    /\ archive' = "closed"
    /\ UNCHANGED <<cfg, cmds, cmd_que, buffer, dsp, now, in_waiting, puts, rx,
                   hist, enq, inb, ts_pkt, n_lines, spc, cleaned,
                   config_known_devices, known_devices, saved, evo_devices,
                   sigs, fns, duty>>

\* ----------------------------------------------------------------- start()
\* await reader returns at the end of the file: await self.cleanup("start")
StartEof(ds) ==
    /\ Suspended
    /\ spc = "tasks"
    /\ input_file
    /\ rpc = "eof"
    /\ cleaned' = Append(cleaned, "start")
    /\ IF database
       THEN /\ spc' = "commit"
            /\ UNCHANGED <<evo_devices, known_devices, saved>>
       ELSE /\ spc' = "returned"
            /\ CleanupFile(ds)
    /\ UNCHANGED <<cfg, cmds, cmd_que, buffer, dsp, now, in_waiting, puts, rx,
                   hist, enq, inb, ts_pkt, n_lines, archive,
                   config_known_devices, sigs, fns, duty>>

\* await reader, or gather, raises the exception that ended the reader
StartRaise ==
    /\ Suspended
    /\ spc = "tasks"
    /\ rpc = "dead"
    /\ spc' = "raised"
    /\ UNCHANGED <<cfg, cmds, cmd_que, buffer, dsp, now, in_waiting, puts, rx,
                   hist, enq, inb, ts_pkt, n_lines, cleaned, archive,
                   config_known_devices, known_devices, saved, evo_devices,
                   sigs, fns, duty>>

\* cleanup, called by start(): await self._output_db.commit() returns
StartCommit ==
    /\ Suspended
    /\ spc = "commit"
    /\ spc' = "close"
    /\ UNCHANGED <<cfg, cmds, cmd_que, buffer, dsp, now, in_waiting, puts, rx,
                   hist, enq, inb, ts_pkt, n_lines, cleaned, archive,
                   config_known_devices, known_devices, saved, evo_devices,
                   sigs, fns, duty>>

\* cleanup, called by start(): await self._output_db.close() returns,
\* self._output_db = None, and cleanup runs to its end
StartClose(ds) ==
    /\ Suspended
    /\ spc = "close"
    /\ archive = "closed"
    /\ database' = FALSE
    /\ CleanupFile(ds)
    /\ spc' = "returned"
    /\ UNCHANGED <<cfg, cmds, cmd_que, buffer, dsp, now, in_waiting, puts, rx,
                   hist, enq, config_device_whitelist, rpc, pkt, calls,
                   ts_pkt, n_lines, cleaned, archive, config_known_devices,
                   sigs, fns, duty>>

\* ------------------------------------------------------------ construction
\* variant: an input file does not force listen_only
ListenOnlyProbe(input, probe) == ~probe

\* config["listen_only"] = not config.get("probe_system"), and True when
\* there is an input file
ListenOnly(input, probe) == IF input THEN TRUE ELSE ~probe

\* Gateway(serial_port, **config): the configuration is normalised; a key
\* such as known_devices is kept as given
GatewayInit(port, input, probe, execute, raw, log, known) ==
    /\ ~config.made
    /\ LET file == IF port /\ input THEN FALSE ELSE input
       IN  config' = [serial_port |-> port,
                      input_file |-> file,
                      probe_system |-> probe,
                      listen_only |-> ListenOnly(file, probe),
                      execute_cmd |-> IF file THEN FALSE ELSE execute,
                      raw_output |-> raw,
                      message_log |-> IF raw > 2 /\ log THEN FALSE ELSE log,
                      known_devices |-> known,
                      made |-> TRUE]
    /\ UNCHANGED <<cfg, cmds, cmd_que, buffer, dsp, now, in_waiting, puts, rx,
                   hist, enq, inb, life, call, tools, duty>>

\* ------------------------------------------------------- the device filter
\* variant: the flag is returned as it was given
select_as_given(enforce_known_list, known_list, block_list) ==
    enforce_known_list

\* the value select_device_filter_mode returns; its other branches only log
select_device_filter_mode(enforce_known_list, known_list, block_list) ==
    IF enforce_known_list /\ known_list = <<>>
    THEN FALSE
    ELSE enforce_known_list

ListInputs == {<<>>, <<CTL>>, <<CTL, TRV>>, <<FAN>>}

\* a call of select_device_filter_mode
CallSelect(enforce_known_list, known_list, block_list) ==
    /\ call' = [fn |-> "select_device_filter_mode",
                args |-> <<enforce_known_list, known_list, block_list>>,
                ret |-> select_device_filter_mode(enforce_known_list,
                                                  known_list, block_list)]
    /\ UNCHANGED <<cfg, cmds, cmd_que, buffer, dsp, now, in_waiting, puts, rx,
                   hist, enq, inb, life, config, tools, duty>>

\* ----------------------------------------------------- the packet structure
HexChars == Digits \cup {"A", "B", "C", "D", "E", "F"}

\* l = r"\d{3}"
MatchLen(str) == Len(str) = 3 /\ \A i \in 1..3 : str[i] \in Digits

\* variant: [0-9A-Fa-f]
MatchPayloadAnyCase(str) ==
    /\ Len(str) % 2 = 0
    /\ Len(str) \div 2 \in 1..48
    /\ \A i \in 1..Len(str) : str[i] \in HexChars \cup {"a", "b", "c", "d", "e", "f"}

\* p = r"([0-9A-F]{2}){1,48}", up to the end of the line
MatchPayload(str) ==
    /\ Len(str) % 2 = 0
    /\ Len(str) \div 2 \in 1..48
    /\ \A i \in 1..Len(str) : str[i] \in HexChars

\* Packet.is_valid of a line whose other fields are well formed, with the
\* length field len and the payload payload: the line matches MESSAGE_REGEX
\* and the payload is as long as declared
is_valid(len, payload) ==
    /\ MatchLen(len)
    /\ MatchPayload(payload)
    /\ Len(payload) = 2 * Num(len, 1, 3)

Rep(n, c) == [i \in 1..n |-> c]

LenInputs ==
    {<<"0", "0", "0">>, <<"0", "0", "1">>, <<"0", "0", "2">>,
     <<"0", "4", "8">>, <<"0", "4", "9">>, <<"0", "5", "0">>,
     <<"1", "0", "0">>, <<"0", "1">>, <<"0", "0", "0", "1">>,
     <<" ", "0", "1">>, <<"0", "0", "A">>}

PayloadLens == {0, 1, 2, 3, 4, 96, 97, 98, 100, 200}

PayloadInputs ==
    {Rep(n, "A") : n \in PayloadLens} \cup
    {[Rep(n, "0") EXCEPT ![n] = c] :
        n \in PayloadLens \ {0}, c \in {"a", "G", " "}}

\* Packet(raw_pkt).is_valid is evaluated
CallIsValid(len, payload) ==
    /\ call' = [fn |-> "is_valid", args |-> <<len, payload>>,
                ret |-> is_valid(len, payload)]
    /\ UNCHANGED <<cfg, cmds, cmd_que, buffer, dsp, now, in_waiting, puts, rx,
                   hist, enq, inb, life, config, tools, duty>>

\* ------------------------------------------------------------ the duty cycle
\* the window of the duty cycle: the last 60 s, in ms
WINDOW == 60000

\* the serial line: 115 200 baud, 10 bits to a byte, and the overhead of the
\* adapter for a write, in ms
BAUD == 115200
BITS_PER_BYTE == 10
OVERHEAD == 4

\* the time to transmit a line of n bytes, in ms, rounded up
TxTime(n) == (n * BITS_PER_BYTE * 1000 + BAUD - 1) \div BAUD + OVERHEAD

\* the writes that count at time t: those that ended in the last 60 s
Recent(s, t) == SelectSeq(s, LAMBDA w : w.at + w.dur > t - WINDOW)

\* the time the dispatcher counts as spent transmitting, of the writes s
Counted(s) ==
    LET RECURSIVE sum(_)
        sum(i) == IF i = 0 THEN 0 ELSE sum(i - 1) + s[i].dur
    IN  sum(Len(s))

\* variant: there is no ceiling
AllowedAlways(s, t, n) == TRUE

\* a line of n bytes written at time t leaves the fraction of the 60 s
\* before the end of the write within the ceiling
Allowed(s, t, n) ==
    (Counted(Recent(s, t + TxTime(n))) + TxTime(n)) * MAX_DUTY_CYCLE
        <= max_duty_cycle * WINDOW

\* the times at which the dispatcher can write n bytes, asked at time t: now,
\* or when a write has left the window
WriteTimes(s, t, n) ==
    {u \in {t} \cup {s[i].at + s[i].dur + WINDOW - TxTime(n) : i \in 1..Len(s)} :
        u >= t /\ Allowed(s, u, n)}

\* the lengths of the lines written: a payload of 1 byte, or of 48
LineLens == {50, 144}

\* put_pkt with the duty cycle: the dispatcher sleeps until the write stays
\* within the ceiling, then writes the n bytes
DutyPut(n) ==
    /\ clock <= MaxClock
    /\ Len(sent) < MaxWrites
    /\ WriteTimes(sent, clock, n) # {}
    /\ LET t == CHOOSE u \in WriteTimes(sent, clock, n) :
                    \A v \in WriteTimes(sent, clock, n) : u <= v
       IN  /\ sent' = Append(Recent(sent, t + TxTime(n)),
                             [asked |-> clock, at |-> t, dur |-> TxTime(n)])
           /\ clock' = t + TxTime(n)
    /\ UNCHANGED <<cfg, cmds, cmd_que, buffer, dsp, now, in_waiting, puts, rx,
                   hist, enq, inb, life, fns, max_duty_cycle>>

\* time passes with nothing to write
DutyTick(d) ==
    /\ clock + d <= MaxClock
    /\ clock' = clock + d
    /\ sent' = Recent(sent, clock')
    /\ UNCHANGED <<cfg, cmds, cmd_que, buffer, dsp, now, in_waiting, puts, rx,
                   hist, enq, inb, life, fns, max_duty_cycle>>

\* ----------------------------------------------------------------- signals
\* a handler task: the signal it was created for and where it is: "new",
\* "commit" or "close" (suspended in cleanup), "done", "dead" (ended by an
\* exception) or "cancelled"
Signals == {"SIGINT", "SIGTERM", "SIGHUP", "SIGUSR1", "SIGUSR2"}

\* variant: SIGHUP is not handled as a shutdown
ShutdownNoHup == {"SIGINT", "SIGTERM"}

\* if signal in [signal.SIGHUP, signal.SIGINT, signal.SIGTERM]
ShutdownSignals == {"SIGHUP", "SIGINT", "SIGTERM"}

\* start() and its tasks have not ended
Running == spc \in {"tasks", "commit", "close"}

\* the loop's signal handler: asyncio.create_task(self._signal_handler(sig))
Signal(sig) ==
    /\ Suspended
    /\ Running
    /\ Len(sigs) < MaxSignals
    /\ sigs' = Append(sigs, [sig |-> sig, at |-> "new"])
    /\ UNCHANGED <<cfg, cmds, cmd_que, buffer, dsp, now, in_waiting, puts, rx,
                   hist, enq, inb, ts_pkt, n_lines, spc, cleaned, archive,
                   config_known_devices, known_devices, saved, evo_devices,
                   fns, duty>>

\* [task.cancel() for task in tasks], by handler i, which then ends: every
\* task that has not ended gets a CancelledError at the await it is
\* suspended in
CancelOthers(i) ==
    /\ pc' = "cancelled"
    /\ rpc' = (IF rpc \in {"eof", "dead"} THEN rpc ELSE "cancelled")
    /\ spc' = (IF Running THEN "cancelled" ELSE spc)
    /\ sigs' = [j \in 1..Len(sigs) |->
                  IF j = i THEN [sigs[j] EXCEPT !.at = "done"]
                  ELSE IF sigs[j].at \in {"new", "commit", "close"}
                  THEN [sigs[j] EXCEPT !.at = "cancelled"]
                  ELSE sigs[j]]

\* _signal_handler(signal) starts: it dumps the state or the debug data, or
\* calls cleanup; _debug_info() fails on self._hp, which only port_reader
\* sets
HandlerRun(i, ds) ==
    /\ Suspended
    /\ i \in 1..Len(sigs)
    /\ sigs[i].at = "new"
    /\ IF sigs[i].sig \in ShutdownSignals
       THEN /\ cleaned' = Append(cleaned, "_signal_handler")
            /\ IF database
               THEN /\ sigs' = [sigs EXCEPT ![i].at = "commit"]
                    /\ UNCHANGED <<pc, rpc, spc, evo_devices, known_devices,
                                   saved>>
               ELSE /\ CleanupFile(ds)
                    /\ CancelOthers(i)
       ELSE /\ sigs' = [sigs EXCEPT ![i].at =
                          IF sigs[i].sig = "SIGUSR2" /\ input_file
                          THEN "dead" ELSE "done"]
            /\ UNCHANGED <<cleaned, pc, rpc, spc, evo_devices, known_devices,
                           saved>>
    /\ UNCHANGED <<cfg, cmds, cmd_que, buffer, cmd, timeout_1, timeout_2, now,
                   in_waiting, puts, rx, hist, enq, database,
                   config_device_whitelist, pkt, calls, ts_pkt, n_lines,
                   archive, config_known_devices, fns, duty>>

\* cleanup, called by handler i: await self._output_db.commit() returns
HandlerCommit(i) ==
    /\ Suspended
    /\ i \in 1..Len(sigs)
    /\ sigs[i].at = "commit"
    /\ sigs' = [sigs EXCEPT ![i].at = "close"]
    /\ UNCHANGED <<cfg, cmds, cmd_que, buffer, dsp, now, in_waiting, puts, rx,
                   hist, enq, inb, ts_pkt, n_lines, spc, cleaned, archive,
                   config_known_devices, known_devices, saved, evo_devices,
                   fns, duty>>

\* cleanup, called by handler i: await self._output_db.close() returns,
\* cleanup runs to its end and the handler cancels the other tasks
HandlerClose(i, ds) ==
    /\ Suspended
    /\ i \in 1..Len(sigs)
    /\ sigs[i].at = "close"
    /\ archive = "closed"
    /\ database' = FALSE
    /\ CleanupFile(ds)
    /\ CancelOthers(i)
    /\ UNCHANGED <<cfg, cmds, cmd_que, buffer, cmd, timeout_1, timeout_2, now,
                   in_waiting, puts, rx, hist, enq, config_device_whitelist,
                   pkt, calls, ts_pkt, n_lines, cleaned, archive,
                   config_known_devices, fns, duty>>

\* ------------------------------------------------------------------ claims
\* the step in which the dispatcher takes a command from the queue
Get == cmd = 0 /\ cmd' # 0

\* the step in which a command is written to the serial port
Put == puts' # puts /\ puts' # <<>>

\* sending is enabled: a serial port is the destination and the gateway is
\* not listen-only
Sending == destination /\ ~listen_only

(* C1, as claimed: of two commands that are on the queue together when the
   dispatcher takes a command, the one with the higher priority (or, at equal
   priority, the one put first) is written to the serial port before the
   other: the command taken is the least of the queue, and no command is
   written that was on the queue when the dispatcher took a command it did
   not write. *)
C1Orig ==
    /\ [][Get => \A b \in cmd_que' : CmdLess(cmd', b)]_vars
    /\ [](written \cap overtaken = {})

(* C1, amended: of two such commands the one with the higher priority (or
   the one put first) is taken from the queue first, and the other is not
   written before the dispatcher has finished with the first one; the first
   one is itself written before the other unless the dispatcher discards it,
   which it does only in listen-only mode or without a serial port. *)
C1_DispatchOrder ==
    /\ [][Get => \A b \in cmd_que' : CmdLess(cmd', b)]_vars
    /\ [](written \subseteq done \cup {cmd})
    /\ [](overtaken # {} => ~Sending)

\* a command put earlier is being written after a more important one that
\* was put later and has been written
C1Witness ==
    /\ cmd # 0
    /\ cmd \in written
    /\ \E a \in done \cap written : a > cmd /\ CmdLess(a, cmd)

(* C2, as claimed: no two requests to the same destination with the same
   code are in flight together, a request being in flight from its write
   until its destination has answered it or the dispatcher has given up on
   it. *)
C2Orig ==
    \A a \in open : \A b \in open :
        a # b => ~(cmds[a].dest = cmds[b].dest /\ cmds[a].code = cmds[b].code)

(* C2, amended: at most one RQ 0404 is in flight.  An RQ 0404 that has been
   written and has neither been acknowledged (a decoded RP 0404) nor given
   up on is the command the dispatcher is busy with and the only entry of
   the pending buffer, so no other command is written meanwhile.  Requests
   with another code are not tracked. *)
C2_OneScheduleRequest ==
    /\ Len(buffer) <= 1
    /\ \A a \in written :
          (cmds[a].verb = "RQ" /\ cmds[a].code = "0404"
             /\ a \notin acked \cup gaveup)
          => (cmd = a /\ buffer = <<a>>)

\* a second RQ 0404 to the same destination is in flight after the first
\* one was acknowledged or given up on
C2Witness ==
    /\ cmd # 0
    /\ buffer = <<cmd>>
    /\ cmd \in written
    /\ \E a \in (acked \cup gaveup) \ {cmd} :
          cmds[a].code = cmds[cmd].code /\ cmds[a].dest = cmds[cmd].dest

(* C3, as claimed: a message clears the pending command only if it has the
   command's code, is an RP (or an I when the command is a W) and comes from
   the command's destination. *)
C3Claim ==
    rx.acked # 0 =>
        /\ rx.pkt.code = cmds[rx.acked].code
        /\ \/ rx.pkt.verb = "RP"
           \/ rx.pkt.verb = " I" /\ cmds[rx.acked].verb = " W"
        /\ rx.pkt.src = cmds[rx.acked].dest

\* a message was decoded and went on to the entity store
Decoded == rx.logged /\ rx.pkt.msg_valid /\ raw_output <= 2

(* C4, as claimed: a decoded RP with the pending command's code clears it
   at once, so that the first such message in arrival order acknowledges it;
   every decoded message, acknowledging or not, travels on to the entity
   store as its source and raw_output say; and a message that answers a
   command acknowledged earlier acknowledges neither that command again nor
   a later command, unless it answers that later command as well. *)
C4Claim ==
    /\ (Decoded /\ rx.pending # 0 /\ IsReply(rx.pkt, cmds[rx.pending]))
          => rx.acked = rx.pending
    /\ Decoded => rx.travel = Travel(rx.pkt)
    /\ \A i \in 1..Len(buffer) : buffer[i] \notin acked
    /\ rx.acked # 0 =>
          \A c \in acked \ {rx.acked} :
              Answers(rx.pkt, cmds[c]) => Answers(rx.pkt, cmds[rx.acked])

(* C5, as claimed: the first retransmission comes 2.5 s after the first
   write, every later one 1.0 s after the write before it. *)
C5Orig ==
    \A i \in 2..Len(puts) :
        puts[i] - puts[i - 1] >= (IF i = 2 THEN TIMEOUT_1 ELSE TIMEOUT_2)

(* C5, amended: every attempt, the first one included, waits for the reply
   until the first 5 ms poll after 1.0 s has passed since the write, and a
   retransmission is started only while less than 2.5 s have passed since
   the command was taken. *)
C5_ReplyWindows ==
    /\ \A i \in 2..Len(puts) :
          /\ puts[i] - puts[i - 1] > TIMEOUT_2
          /\ puts[i] - puts[i - 1] <= TIMEOUT_2 + SLEEP
          /\ puts[i] < puts[1] + TIMEOUT_1
    /\ pc = "sleep" => now <= timeout_2 + SLEEP

\* a command has been written three times
C5Witness == Len(puts) = 3 /\ pc = "sleep" /\ now > timeout_2

(* C6, as claimed: a command is retransmitted at most cmd.retries times, and
   a command with retries = 0 is written once and never waits for a reply. *)
C6Claim ==
    cmd # 0 =>
        /\ Len(puts) <= 1 + cmds[cmd].qos.retries
        /\ cmds[cmd].qos.retries = 0
             => (pc # "sleep" /\ \A i \in 1..Len(buffer) : buffer[i] # cmd)

(* C7: when the dispatcher gives up on a command, it empties the pending
   buffer, leaves the command queue as it is, records no other command as
   given up and goes on to task_done; with sending enabled every command it
   finishes, before or after a give-up, has been written. *)
C7_TimeoutLocal ==
    /\ [][(pc = "outer" /\ pc' = "task_done")
            => (buffer' = <<>> /\ cmd_que' = cmd_que /\ cmd' = cmd
                  /\ gaveup' = gaveup \cup {cmd} /\ done' = done)]_vars
    /\ [](Sending => done \subseteq written)
    /\ [](gaveup \subseteq written)

\* a command that was on the queue while the dispatcher gave up on another
\* one is written afterwards
C7Witness ==
    /\ cmd # 0
    /\ cmd \in written
    /\ cmd \notin gaveup
    /\ \E g \in gaveup : cmd < g

(* C8, as claimed: no command is written to the serial port while
   serial.in_waiting is not zero. *)
C8Claim == [][Put => in_waiting = 0]_vars

(* C9, as claimed: when probe_system is false no command taken from the
   queue is written to the serial port. *)
C9Orig == (~probe_system) => written = {}

(* C9, amended: when probe_system is false no command taken from the queue
   is written to the serial port other than adapter control lines (commands
   whose text begins with "!"). *)
C9_ListenOnly == (~probe_system) => \A c \in written : cmds[c].ctl

\* on a serial port with probe_system false, an RF command was taken from
\* the queue and finished without having been written
C9Witness ==
    /\ ~probe_system
    /\ destination
    /\ \E c \in done \ written : ~cmds[c].ctl

(* C10: with a serial port as destination a queued control line is written
   once: it has been written when the dispatcher is done with it, is never
   written a second time, is never put in the pending buffer and the
   dispatcher never waits for a reply to it. *)
C10_ControlLine ==
    /\ \A c \in done : (cmds[c].ctl /\ destination) => c \in written
    /\ (cmd # 0 /\ cmds[cmd].ctl) =>
          /\ Len(puts) <= 1
          /\ pc \notin {"outer", "put_rq", "sleep"}
          /\ (pc = "task_done" /\ destination) => Len(puts) = 1
    /\ \A i \in 1..Len(buffer) : ~cmds[buffer[i]].ctl
    /\ \A c \in written : cmds[c].ctl => c \in done \cup {cmd}

\* a control line was written on a listen-only gateway
C10Witness ==
    /\ listen_only
    /\ \E c \in done \cap written : cmds[c].ctl

(* C11: a command is taken from the queue once and task_done is called for
   it once.  Every command created is in exactly one place: on the queue,
   with the dispatcher, or done; a get removes exactly the command taken,
   which was on the queue; task_done is called for the command the
   dispatcher holds and for no other; and a write, a retransmission
   included, sends the command the dispatcher holds and changes neither the
   queue nor the commands. *)
C11_TakenOnce ==
    /\ [](/\ cmd_que \cup done \cup ({cmd} \ {0}) = 1..Len(cmds)
          /\ cmd_que \cap done = {}
          /\ cmd \notin cmd_que \cup done)
    /\ [][Get => (cmd' \in cmd_que /\ cmd_que' = cmd_que \ {cmd'})]_vars
    /\ [][done' # done
            => (cmd # 0 /\ cmd \notin done /\ done' = done \cup {cmd}
                  /\ cmd' = 0)]_vars
    /\ [][Put => (cmd' = cmd /\ cmd_que' = cmd_que /\ cmds' = cmds
                   /\ written' = written \cup {cmd})]_vars

\* a command has been written a second time while another one waits on the
\* queue
C11Witness ==
    /\ cmd # 0
    /\ Len(puts) >= 2
    /\ cmd_que # {}

(* C12: the queue never holds more than 200 commands, and a put attempted
   while it holds 200 gives its caller QueueFull and leaves the queue and
   the commands on it as they are; any other put adds one command. *)
C12_QueueFull ==
    /\ [](Cardinality(cmd_que) <= 200)
    /\ [][n_put' # n_put
            => IF Cardinality(cmd_que) >= 200
               THEN put_error' = "Full" /\ cmd_que' = cmd_que /\ cmds' = cmds
               ELSE /\ put_error' = "none"
                    /\ cmd_que' = cmd_que \cup {Len(cmds')}
                    /\ Len(cmds') \notin cmd_que]_vars

\* a put has failed on a queue that holds 200 commands
C12Witness == put_error = "Full" /\ Cardinality(cmd_que) = 200

\* the last call of _process_pkt made the call x, and how often
Called(x) == \E i \in 1..Len(calls) : calls[i] = x
Count(x) == Cardinality({i \in 1..Len(calls) : calls[i] = x})

\* the reader's last packet passed the validation and the filter
Admitted == Called("log")

\* the reader's last call of _process_pkt is at its end
Finished == pkt # NoPkt /\ rpc \in {"get", "dead"}

\* two packets carry the same three addresses
SameAddrs(p, q) == p.src = q.src /\ p.dst = q.dst /\ p.addr2 = q.addr2

\* the packets that carry the addresses of p, with any verb and code and any
\* outcome of the decoding
Alike(p) ==
    {[p EXCEPT !.verb = v, !.code = c, !.msg_valid = m, !.msg_error = e] :
        v \in {"RP", " I", "RQ", " W"}, c \in {"0404", "0418"},
        m \in BOOLEAN, e \in {NoError} \cup ExcClasses}

(* C13, as claimed: with config device_whitelist set, a valid packet is
   admitted if and only if one of its three addresses is in the whitelist
   or has device class 18. *)
C13Claim ==
    (pkt.is_valid /\ config_device_whitelist)
    => (Admitted <=> \E a \in Addrs(pkt) :
                        a \in device_whitelist \/ a.class = "18")

(* C14, as claimed: without config device_whitelist, a valid packet is
   dropped if and only if one of its addresses is in the blacklist. *)
C14Claim ==
    (pkt.is_valid /\ ~config_device_whitelist)
    => (~Admitted <=> \E a \in Addrs(pkt) : a \in device_blacklist)

(* C15: the filter's decision on a valid packet is the one it takes on every
   other packet with the same three addresses, whatever their verb, code,
   validity as a message or effect on the entity store. *)
C15_AddressesOnly ==
    pkt.is_valid
    => \A q \in Alike(pkt) :
          /\ SameAddrs(pkt, q)
          /\ Admitted <=> has_wanted_device(q, device_whitelist, device_blacklist)

\* a valid packet was dropped that has the addresses of the neighbour's
\* packet and another verb or code
C15Witness ==
    /\ pkt.is_valid
    /\ ~Admitted
    /\ SameAddrs(pkt, NeighbourPkt)
    /\ pkt.verb # NeighbourPkt.verb \/ pkt.code # NeighbourPkt.code

(* C16: for an admitted packet whose message is valid and not from a class
   18 device, at tier 3 no Message is built; at tier 2 the Message is built
   and the entities are neither created nor updated; at tier 1 they are
   created and not updated; at tier 0 they are created and then updated,
   the update being skipped only when the creation raised an exception. *)
C16_Tiers ==
    (Finished /\ Admitted /\ pkt.msg_error = NoError /\ pkt.msg_valid
       /\ pkt.src.class # "18")
    => /\ Called("Message") <=> raw_output < DONT_CREATE_MESSAGES
       /\ Called("create") <=> raw_output < DONT_CREATE_ENTITIES
       /\ Called("update") <=> (raw_output < DONT_UPDATE_ENTITIES
                                  /\ pkt.evo_error[1] # "create")
       /\ Count("create") <= 1 /\ Count("update") <= 1
       /\ \A i, j \in 1..Len(calls) :
             (calls[i] = "create" /\ calls[j] = "update") => i < j

\* at tier 1 the entities of a message were created and not updated
C16Witness ==
    /\ Finished
    /\ raw_output = DONT_UPDATE_ENTITIES
    /\ Called("create")
    /\ ~Called("update")
    /\ pkt.evo_error[1] = "none"

(* C17: a message from a class 18 device reaches neither _create_entities
   nor _update_entities, the only calls that change the entity store, at any
   tier. *)
C17_AdapterObserved ==
    pkt.src.class = "18" => (~Called("create") /\ ~Called("update"))

\* at tier 0 a valid message from the adapter was decoded and matched, and
\* that was all
C17Witness ==
    /\ Finished
    /\ raw_output = 0
    /\ pkt.src.class = "18"
    /\ Called("match")

(* C18: while a call of _process_pkt is suspended at an await, the reader's
   next step continues that call for the same packet; and when the reader is
   ready for the next packet, the last one has been through every stage:
   the log, the archive when there is one, and _process_payload. *)
C18_ArrivalOrder ==
    /\ [][(rpc \in {"execute", "commit"} /\ <<rpc, pkt, calls>>' # <<rpc, pkt, calls>>)
            => (pkt' = pkt /\ Len(calls') > Len(calls)
                  /\ SubSeq(calls', 1, Len(calls)) = calls)]_vars
    /\ []((rpc = "get" /\ Admitted)
            => calls = <<"log">>
                         \o (IF database THEN <<"insert", "commit">> ELSE <<>>)
                         \o Payload(pkt).calls)

\* another task has run while a packet was being archived
C18Witness == rpc = "commit" /\ in_waiting = 1

(* C19: a packet that is valid and wanted is written to the packet log once
   and, when there is a database, inserted and committed once, at every tier
   and whether or not a Message can be built from it; any other packet is
   neither logged nor archived. *)
C19_LoggedOnce ==
    LET wanted == pkt.is_valid /\ has_wanted_device(pkt, device_whitelist,
                                                    device_blacklist)
    IN  /\ Count("log") = (IF wanted THEN 1 ELSE 0)
        /\ Count("insert") <= 1 /\ Count("commit") <= 1
        /\ (~wanted \/ ~database) => Count("insert") = 0
        /\ Finished =>
              /\ Count("insert") = (IF wanted /\ database THEN 1 ELSE 0)
              /\ Count("commit") = Count("insert")

\* at tier 3 a packet was archived from which no Message can be built
C19Witness ==
    /\ Finished
    /\ raw_output = 3
    /\ pkt.msg_error # NoError
    /\ Called("insert")

(* C20, as claimed: no exception escapes _process_payload, so that the
   reader is never ended by a packet. *)
C20Claim == rpc # "dead" /\ ~Called("raise")

\* the step in which file_reader takes a line
ReadsLine == n_lines' = n_lines + 1

\* a step that neither raises nor touches the packet log, the archive, the
\* pending buffer or the entity store: the reader stays in its loop and
\* _process_pkt is not called
Dropped ==
    /\ rpc' = rpc
    /\ pkt' = pkt /\ calls' = calls
    /\ buffer' = buffer
    /\ <<database, archive, evo_devices, known_devices>>'
          = <<database, archive, evo_devices, known_devices>>

\* str is YYYY-MM-DDTHH:MM:SS.ffffff, digits for the letters
IsoFormat(str) ==
    /\ Len(str) = 26
    /\ \A i \in 1..26 :
          str[i] \in (CASE i \in {5, 8} -> {"-"} [] i = 11 -> {"T"}
                        [] i \in {14, 17} -> {":"} [] i = 20 -> {"."}
                        [] OTHER -> Digits)

\* the first 26 characters of a line are a date, a T or a space, and a time
\* of day with six digits of microseconds
Stamped(l) ==
    LET str == RawDatetime(l)
    IN  /\ IsoFormat([i \in 1..Len(str) |->
                        IF i = 11 /\ str[i] = " " THEN "T" ELSE str[i]])
        /\ Num(str, 1, 4) > 0
        /\ Num(str, 6, 7) \in 1..12
        /\ Num(str, 9, 10) \in 1..DaysIn(Num(str, 1, 4), Num(str, 6, 7))
        /\ Num(str, 12, 13) < 24 /\ Num(str, 15, 16) < 60
        /\ Num(str, 18, 19) < 60

(* C21, as claimed: in file replay a line whose timestamp is not of the form
   YYYY-MM-DDTHH:MM:SS.ffffff is dropped: reading it raises nothing and
   changes neither the packet log, the archive, the pending buffer nor the
   entity store. *)
C21Orig == [][(ReadsLine /\ ~IsoFormat(ts_pkt'.stamp)) => Dropped]_vars

(* C21, amended: a line is dropped in that way when its first 26 characters
   are not a timestamp YYYY-MM-DD, a T or a space, HH:MM:SS.ffffff that is a
   date and a time of day; and every line that does begin with such a
   timestamp and carries a packet is handed to _process_pkt, whatever the
   lines before it were. *)
C21_BadStampDropped ==
    /\ [][(ReadsLine /\ ~Stamped(ts_pkt')) => Dropped]_vars
    /\ [][(ReadsLine /\ Stamped(ts_pkt') /\ ts_pkt'.frame # NoPkt)
            => (pkt' = RawPacket(ts_pkt')
                  /\ Admitted' = (pkt'.is_valid
                        /\ has_wanted_device(pkt', device_whitelist,
                                             device_blacklist)))]_vars

\* the second line of the file has no microseconds and was dropped, and what
\* the first line left in the packet log is as it was
C21Witness ==
    /\ n_lines = 2
    /\ ts_pkt.stamp = SubSeq(GoodStamp, 1, 19)
    /\ rpc = "get"
    /\ Admitted

(* C22, as claimed: in file replay start() ends in one way only: the reader
   reaches the end of the file, cleanup runs, once, and start() returns. *)
C22Claim ==
    /\ spc # "raised"
    /\ Len(cleaned) <= 1
    /\ spc = "returned" => (rpc = "eof" /\ cleaned = <<"start">>)

\* the tasks of the gateway that read and write have ended
TasksStopped == pc = "cancelled" /\ rpc \in {"cancelled", "eof", "dead"}

\* C23: on shutdown the writer is cancelled first, then the reader, and the
\* archive is closed last: no command is written once a cleanup has begun,
\* the archive is not closed before the writer and the reader have stopped,
\* and neither the writer nor the reader takes a step once it is closed
C23Claim ==
    /\ [][cleaned # <<>> => written' = written]_vars
    /\ [](archive = "closed" => TasksStopped)
    /\ [][archive = "closed" =>
            (pc' \in {pc, "cancelled"} /\ rpc' \in {rpc, "cancelled"})]_vars

\* handler i takes a step of its own
HandlerSteps(i) == sigs'[i].at # sigs[i].at /\ sigs'[i].at # "cancelled"

\* every task other than handler i has ended
OthersStopped(i) ==
    /\ TasksStopped
    /\ ~Running
    /\ \A j \in 1..Len(sigs) :
          j # i => sigs[j].at \in {"done", "dead", "cancelled"}

\* C24: the handler of SIGINT, SIGTERM or SIGHUP begins by calling cleanup
\* and ends, cleanup done, with every other task cancelled; the handler of
\* SIGUSR1 or SIGUSR2 ends in one step that changes no task, nor the queue,
\* the reply buffer, the inbound state or the devices
C24_Signals ==
    /\ [][\A i \in 1..Len(sigs) :
            sigs[i].sig \in {"SIGINT", "SIGTERM", "SIGHUP"} =>
                /\ (sigs[i].at = "new" /\ HandlerSteps(i)) =>
                       cleaned' = Append(cleaned, "_signal_handler")
                /\ (sigs[i].at # "done" /\ sigs'[i].at = "done") =>
                       /\ cleaned' # <<>>
                       /\ ~database'
                       /\ archive' # "open"
                       /\ config_known_devices => saved'.written
                       /\ OthersStopped(i)']_vars
    /\ [][\A i \in 1..Len(sigs) :
            (sigs[i].sig \in {"SIGUSR1", "SIGUSR2"} /\ HandlerSteps(i)) =>
                /\ sigs'[i].at \in {"done", "dead"}
                /\ \A j \in 1..Len(sigs) : j # i => sigs'[j] = sigs[j]
                /\ UNCHANGED <<cfg, cmds, cmd_que, buffer, dsp, now, puts,
                               hist, inb, spc, cleaned, archive, evo_devices,
                               known_devices, saved>>]_vars

C24Witness ==
    /\ sigs # <<>>
    /\ sigs[1] = [sig |-> "SIGHUP", at |-> "done"]
    /\ archive = "closed"
    /\ pc = "cancelled"
    /\ rpc = "cancelled"
    /\ written # {}

\* C25: a line is accepted only if its length field is three digits that
\* read as a number from 1 to 48 and its payload is exactly twice that many
\* characters, each of 0-9 or A-F
C25_Structure ==
    (call.fn = "is_valid" /\ call.ret) =>
        LET len == call.args[1]
            payload == call.args[2]
        IN  /\ Len(len) = 3
            /\ \A i \in 1..3 : len[i] \in Digits
            /\ Num(len, 1, 3) \in 1..48
            /\ Len(payload) = 2 * Num(len, 1, 3)
            /\ \A i \in 1..Len(payload) :
                  payload[i] \in {"0", "1", "2", "3", "4", "5", "6", "7",
                                  "8", "9", "A", "B", "C", "D", "E", "F"}

C25Witness ==
    /\ call.fn = "is_valid"
    /\ call.ret
    /\ call.args = <<(<<"0", "4", "8">>), Rep(96, "A")>>

\* C28: select_device_filter_mode returns True exactly when
\* enforce_known_list is True and known_list is not empty, whatever
\* block_list is
C28_FilterMode ==
    call.fn = "select_device_filter_mode" =>
        (call.ret = TRUE <=> (call.args[1] = TRUE /\ Len(call.args[2]) > 0))

C28Witness ==
    /\ call.fn = "select_device_filter_mode"
    /\ call.args = <<TRUE, <<>>, <<FAN>> >>
    /\ call.ret = FALSE

\* C29: once a gateway is constructed, a serial port excludes an input
\* file; with an input file listen_only is true and execute_cmd is unset,
\* without one listen_only is the negation of probe_system; and a
\* raw_output above 2 goes with message_log off
C29_Config ==
    config.made =>
        /\ config.serial_port => ~config.input_file
        /\ IF config.input_file
           THEN config.listen_only /\ ~config.execute_cmd
           ELSE config.listen_only = ~config.probe_system
        /\ config.raw_output > 2 => ~config.message_log

C29Witness ==
    /\ config.made
    /\ config.input_file
    /\ config.probe_system
    /\ config.listen_only
    /\ config.raw_output = 3

\* the step in which a call of _dispatch_pkt returns
Returns == pc # "idle" /\ pc' = "idle"

\* C30: when _dispatch_pkt returns the queue is empty and every command
\* put so far has been taken off it and finished with; and unless sending
\* is enabled nothing is ever written but a "!" command to a serial port
C30_QueueCleared ==
    /\ [][Returns => (cmd_que' = {} /\ cmd' = 0 /\ done' = 1..Len(cmds'))]_vars
    /\ [](~Sending => \A c \in written : destination /\ cmds[c].ctl)

C30Witness ==
    /\ pc = "idle"
    /\ ~Sending
    /\ Len(cmds) = 2
    /\ done = {1, 2}
    /\ overtaken # {}
    /\ written = {}
    /\ \A c \in 1..2 : ~cmds[c].ctl

\* the part of the write w that lies in the 60 s before t
Overlap(w, t) ==
    LET from == IF w.at > t - 60000 THEN w.at ELSE t - 60000
        to == IF w.at + w.dur < t THEN w.at + w.dur ELSE t
    IN  IF to > from THEN to - from ELSE 0

\* the time spent transmitting in the 60 s before t
Transmitting(t) ==
    LET RECURSIVE sum(_)
        sum(i) == IF i = 0 THEN 0 ELSE sum(i - 1) + Overlap(sent[i], t)
    IN  sum(Len(sent))

\* C26: the fraction of the last 60 s spent transmitting is never above
\* the ceiling; a write is made later than it was asked for only if at the
\* time it was asked for it would have gone over the ceiling, and it is made
\* no earlier than asked
C26_DutyCycle ==
    /\ [](Transmitting(clock) * 10000 <= max_duty_cycle * 60000)
    /\ [][\A n \in LineLens :
            (sent' # <<>> /\ sent'[Len(sent')].asked = clock /\ clock' > clock
               /\ sent'[Len(sent')].dur = TxTime(n))
            => /\ sent'[Len(sent')].at >= clock
               /\ sent'[Len(sent')].at > clock => ~Allowed(sent, clock, n)]_vars

C26Witness ==
    /\ max_duty_cycle < 10000
    /\ Len(sent) >= 2
    /\ sent[Len(sent)].at > sent[Len(sent)].asked

\* an RQ 0404, the request the dispatcher waits on
IsScheduleRq(c) == (~c.ctl) /\ c.verb = "RQ" /\ c.code = "0404"

\* C31: with sending enabled on a port, an RQ 0404 is written at least
\* once and at most three times, two writes being at least 1 s apart, and is
\* not written any more once an RP 0404 has been decoded for it; any other
\* command that is not a "!" command is written exactly once
C31Claim ==
    /\ [](Sending => done \subseteq written)
    /\ [](Sending /\ cmd # 0 =>
            /\ Len(puts) <= (IF IsScheduleRq(cmds[cmd]) THEN 3 ELSE 1)
            /\ \A i \in 2..Len(puts) : puts[i] - puts[i - 1] >= TIMEOUT_2)
    /\ [][(Sending /\ Put) => cmd' \notin acked]_vars

\* C32: the pending-reply buffer holds at most one command, and holds one
\* only while the dispatcher is in the RQ 0404 arm with that command; it
\* changes only when the dispatcher appends the command it took, when the
\* dispatcher gives up, and when a decoded RP with the pending command's
\* code empties it; any other message leaves it as it is
C32_PendingBuffer ==
    /\ [](Len(buffer) <= 1)
    /\ [](buffer # <<>> =>
            /\ cmd # 0
            /\ buffer = <<cmd>>
            /\ cmds[cmd].verb = "RQ" /\ cmds[cmd].code = "0404"
            /\ pc \in {"outer", "put_rq", "sleep"})
    /\ [][buffer' # buffer =>
            \/ pc = "branch" /\ pc' = "outer" /\ buffer' = <<cmd>>
            \/ pc = "outer" /\ pc' = "task_done" /\ buffer' = <<>>
                  /\ now >= timeout_1
            \/ /\ buffer' = <<>>
               /\ rx'.logged /\ rx'.pkt.msg_valid /\ raw_output <= 2
               /\ rx'.pkt.verb = "RP"
               /\ rx'.pkt.code = cmds[buffer[1]].code]_vars
    /\ [][(rx' # NoRx /\ buffer # <<>>
             /\ ~(rx'.pkt.verb = "RP" /\ rx'.pkt.code = cmds[buffer[1]].code))
            => buffer' = buffer]_vars

\* a message with the pending command's code that is no RP has been decoded
\* and the command is still pending
C32Witness ==
    /\ buffer # <<>>
    /\ rx.logged /\ rx.pkt.msg_valid /\ raw_output <= 2
    /\ rx.pkt.verb # "RP"
    /\ rx.pkt.code = cmds[buffer[1]].code
    /\ Len(puts) >= 2

\* the calls of cleanup that are suspended in its database part
Closing ==
    Cardinality({i \in 1..Len(sigs) : sigs[i].at \in {"commit", "close"}})
        + (IF spc \in {"commit", "close"} THEN 1 ELSE 0)

\* C33: the archive is committed and closed once: no two calls of cleanup
\* are in the database part together, and once the connection is closed no
\* task issues an insert, a commit or a close on it
C33Claim ==
    /\ [](Closing <= 1)
    /\ [][archive = "closed" =>
            /\ rpc' \in {"execute", "commit"} => rpc' = rpc
            /\ spc' \in {"commit", "close"} => spc' = spc
            /\ \A i \in 1..Len(sigs) :
                  sigs'[i].at \in {"commit", "close"} => sigs'[i] = sigs[i]]_vars

\* C34: the dispatcher never blocks in get(): when it takes a command the
\* queue holds it, and no step but the dispatcher's get() takes a command
\* off the queue
C34_GetNeverBlocks ==
    /\ [](pc # "blocked")
    /\ [][Get => (cmd' \in cmd_que /\ cmd_que' = cmd_que \ {cmd'})]_vars
    /\ [][(cmd_que' # cmd_que /\ ~Get) => cmd_que \subseteq cmd_que']_vars

\* the dispatcher has taken a command, in a call in which it has already
\* finished another, and found the queue empty at the end of an earlier call
C34Witness ==
    /\ pc = "branch"
    /\ cmd = 3 - Cardinality(done)
    /\ Cardinality(done) = 1
    /\ cmd_que = {}
    /\ Len(cmds) = 2

\* C37: at most one of the two device lists has entries, and in whitelist
\* mode with an empty whitelist every valid packet is admitted
C37_EmptyWhitelist ==
    /\ device_whitelist = {} \/ device_blacklist = {}
    /\ (config_device_whitelist /\ device_whitelist = {} /\ pkt.is_valid)
          => Admitted

\* in whitelist mode with an empty whitelist, a valid packet of the
\* neighbour's devices, without an address of class 18, was admitted
C37Witness ==
    /\ config_device_whitelist
    /\ device_whitelist = {}
    /\ pkt.is_valid
    /\ Admitted
    /\ SameAddrs(pkt, NeighbourPkt)

\* a call of cleanup runs to its end in this step
CleanupEnds ==
    \/ spc # "returned" /\ spc' = "returned"
    \/ \E i \in 1..Len(sigs) :
          /\ sigs[i].sig \in ShutdownSignals
          /\ sigs[i].at # "done"
          /\ sigs'[i].at = "done"

\* C27: with a known_devices file configured, a cleanup saves a mapping
\* that has an entry for every device of the entity store, keeps as it was
\* the entry of a device that is not in the store, and keeps, in the entry of
\* a device of the store, every key but friendly_name and blacklist
C27_KnownSaved ==
    [][(config_known_devices /\ CleanupEnds) =>
        /\ saved'.written
        /\ \A d \in evo_devices' : d \in DOMAIN saved'.data
        /\ \A d \in DOMAIN known_devices :
              /\ d \in DOMAIN saved'.data
              /\ IF d \notin evo_devices'
                 THEN saved'.data[d] = known_devices[d]
                 ELSE \A k \in DOMAIN known_devices[d] \
                                   {"friendly_name", "blacklist"} :
                          /\ k \in DOMAIN saved'.data[d]
                          /\ saved'.data[d][k] = known_devices[d][k]]_vars

C27Witness ==
    /\ saved.written
    /\ evo_devices = {CTL, TRV}
    /\ DOMAIN saved.data = {CTL, TRV, FAN}
    /\ DOMAIN saved.data[CTL] = {"alias", "blacklist", "friendly_name"}
    /\ DOMAIN saved.data[TRV] = {"blacklist", "friendly_name"}
    /\ saved.data[FAN] = [alias |-> "alias", blacklist |-> TRUE]

Next ==
    \/ \E c \in CmdInputs : Enqueue(c)
    \/ PortWriter
    \/ FileWriter
    \/ Loop
    \/ SendCtl
    \/ Pass
    \/ StartRq
    \/ Outer
    \/ PutRqReturn
    \/ SleepReturn
    \/ SendCmd
    \/ PutReturn
    \/ TaskDone
    \/ Sleep
    \/ SerialBytes
    \/ \E p \in PktInputs : ProcessPkt(p)

Spec == Init /\ [][Next]_vars

\* ------------------------------------------------- the queue at its capacity
\* a listen-only gateway on a serial port whose queue holds a backlog of
\* schedule requests
InitQueue ==
    /\ input_file = FALSE
    /\ probe_system = FALSE
    /\ raw_output = 3
    /\ device_whitelist = {}
    /\ device_blacklist = {}
    /\ cmds = [i \in 1..Backlog |-> GetSchedule]
    /\ cmd_que = 1..Backlog
    /\ buffer = <<>>
    /\ pc = "idle"
    /\ cmd = 0
    /\ timeout_1 = 0
    /\ timeout_2 = 0
    /\ now = 0
    /\ in_waiting = 0
    /\ puts = <<>>
    /\ written = {}
    /\ overtaken = {}
    /\ open = {}
    /\ rx = NoRx
    /\ acked = {}
    /\ gaveup = {}
    /\ done = {}
    /\ n_put = 0
    /\ put_error = "none"
    /\ database = FALSE
    /\ config_device_whitelist = FALSE
    /\ rpc = "get"
    /\ pkt = NoPkt
    /\ calls = <<>>
    /\ LifeInit
    /\ FnsInit
    /\ DutyInit

NextQueue ==
    \/ \E c \in CmdInputs : Enqueue(c)
    \/ PortWriter
    \/ Loop
    \/ SendCtl
    \/ Pass
    \/ PutReturn
    \/ TaskDone
    \/ SerialBytes

SpecQueue == InitQueue /\ [][NextQueue]_vars

\* ------------------------------------------------------ the inbound pipeline
\* the gateway once start() has read the known_devices file, with the
\* dispatcher idle or, on a probing gateway, waiting for the reply to a
\* schedule request
InitIn ==
    /\ input_file \in BOOLEAN
    /\ probe_system \in BOOLEAN
    /\ raw_output \in 0..3
    /\ database \in BOOLEAN
    /\ config_device_whitelist \in BOOLEAN
    /\ \E kd \in KnownInputs :
          /\ device_whitelist = Whitelist(kd, config_device_whitelist)
          /\ device_blacklist = Blacklist(kd, config_device_whitelist)
    /\ \E waiting \in (IF Sending THEN BOOLEAN ELSE {FALSE}) :
          IF waiting
          THEN /\ cmds = <<GetSchedule>>
               /\ buffer = <<1>>
               /\ pc = "sleep"
               /\ cmd = 1
               /\ timeout_1 = Timeout1(0)
               /\ timeout_2 = Timeout2(0)
               /\ puts = <<0>>
               /\ written = {1}
               /\ open = {1}
               /\ n_put = 1
          ELSE /\ cmds = <<>>
               /\ buffer = <<>>
               /\ pc = "idle"
               /\ cmd = 0
               /\ timeout_1 = 0
               /\ timeout_2 = 0
               /\ puts = <<>>
               /\ written = {}
               /\ open = {}
               /\ n_put = 0
    /\ cmd_que = {}
    /\ now = 0
    /\ in_waiting = 0
    /\ overtaken = {}
    /\ rx = NoRx
    /\ acked = {}
    /\ gaveup = {}
    /\ done = {}
    /\ put_error = "none"
    /\ rpc = "get"
    /\ pkt = NoPkt
    /\ calls = <<>>
    /\ LifeInit
    /\ FnsInit
    /\ DutyInit

NextIn ==
    \/ \E p \in FrameInputs : ReaderGet(p)
    \/ DbExecute
    \/ DbCommit
    \/ SerialBytes

SpecIn == InitIn /\ [][NextIn]_vars

\* ------------------------------------------------------------ file replay
\* start() has read the known_devices file and spawned file_reader and
\* port_writer
InitReplay ==
    /\ input_file = TRUE
    /\ probe_system = FALSE
    /\ raw_output \in 0..3
    /\ database \in BOOLEAN
    /\ config_device_whitelist = FALSE
    /\ config_known_devices \in BOOLEAN
    /\ \E kd \in (IF config_known_devices THEN {{}, UNION KnownInputs}
                  ELSE {{}}) :
          /\ device_whitelist = Whitelist(kd, config_device_whitelist)
          /\ device_blacklist = Blacklist(kd, config_device_whitelist)
          /\ known_devices = KnownMap(kd)
    /\ cmds = <<>>
    /\ cmd_que = {}
    /\ buffer = <<>>
    /\ pc = "idle"
    /\ cmd = 0
    /\ timeout_1 = 0
    /\ timeout_2 = 0
    /\ now = 0
    /\ in_waiting = 0
    /\ puts = <<>>
    /\ written = {}
    /\ overtaken = {}
    /\ open = {}
    /\ rx = NoRx
    /\ acked = {}
    /\ gaveup = {}
    /\ done = {}
    /\ n_put = 0
    /\ put_error = "none"
    /\ rpc = "get"
    /\ pkt = NoPkt
    /\ calls = <<>>
    /\ ts_pkt = NoLine
    /\ n_lines = 0
    /\ spc = "tasks"
    /\ cleaned = <<>>
    /\ archive = (IF database THEN "open" ELSE "none")
    /\ saved = NoFile
    /\ evo_devices = {}
    /\ sigs = <<>>
    /\ FnsInit
    /\ DutyInit

NextReplay ==
    \/ \E l \in LineInputs : FileReader(l)
    \/ FileEof
    \/ DbExecute
    \/ DbCommit
    \/ \E ds \in EvoInputs : StartEof(ds)
    \/ StartRaise
    \/ StartCommit
    \/ \E ds \in EvoInputs : StartClose(ds)
    \/ ArchiveCloses
    \/ FileWriter
    \/ Loop

SpecReplay == InitReplay /\ [][NextReplay]_vars

\* ------------------------------------------------------------- the lifecycle
\* a command that is neither a control line nor a schedule request
GetFaultLog == [GetSchedule EXCEPT !.code = "0418"]

\* port_reader, spawned by proc_pkts_from_port, gets a frame
PortReader(p) ==
    /\ ~input_file
    /\ ReaderGet(p)

\* start() has read the known_devices file and spawned its reader and its
\* writer; there are commands on the queue
InitLife ==
    /\ input_file \in BOOLEAN
    /\ probe_system \in (IF input_file THEN {FALSE} ELSE BOOLEAN)
    /\ raw_output \in {0, 3}
    /\ database \in BOOLEAN
    /\ config_device_whitelist = FALSE
    /\ config_known_devices \in BOOLEAN
    /\ \E kd \in (IF config_known_devices
                  THEN {{}, {[id |-> CTL, blacklist |-> FALSE],
                             [id |-> FAN, blacklist |-> TRUE]}}
                  ELSE {{}}) :
          /\ device_whitelist = Whitelist(kd, config_device_whitelist)
          /\ device_blacklist = Blacklist(kd, config_device_whitelist)
          /\ known_devices = KnownMap(kd)
    /\ cmds \in {<<>>, <<CtlCmd, GetFaultLog>>}
    /\ cmd_que = 1..Len(cmds)
    /\ n_put = Len(cmds)
    /\ buffer = <<>>
    /\ pc = "idle"
    /\ cmd = 0
    /\ timeout_1 = 0
    /\ timeout_2 = 0
    /\ now = 0
    /\ in_waiting = 0
    /\ puts = <<>>
    /\ written = {}
    /\ overtaken = {}
    /\ open = {}
    /\ rx = NoRx
    /\ acked = {}
    /\ gaveup = {}
    /\ done = {}
    /\ put_error = "none"
    /\ rpc = "get"
    /\ pkt = NoPkt
    /\ calls = <<>>
    /\ ts_pkt = NoLine
    /\ n_lines = 0
    /\ spc = "tasks"
    /\ cleaned = <<>>
    /\ archive = (IF database THEN "open" ELSE "none")
    /\ saved = NoFile
    /\ evo_devices = {}
    /\ sigs = <<>>
    /\ FnsInit
    /\ DutyInit

NextLife ==
    \/ \E sig \in Signals : Signal(sig)
    \/ \E i \in 1..MaxSignals, ds \in EvoInputs : HandlerRun(i, ds)
    \/ \E i \in 1..MaxSignals : HandlerCommit(i)
    \/ \E i \in 1..MaxSignals, ds \in EvoInputs : HandlerClose(i, ds)
    \/ ArchiveCloses
    \/ PortReader(KnownPkt)
    \/ FileReader([stamp |-> GoodStamp, frame |-> KnownPkt])
    \/ FileEof
    \/ DbExecute
    \/ DbCommit
    \/ \E ds \in EvoInputs : StartEof(ds)
    \/ StartCommit
    \/ \E ds \in EvoInputs : StartClose(ds)
    \/ PortWriter
    \/ FileWriter
    \/ Loop
    \/ SendCtl
    \/ Pass
    \/ SendCmd
    \/ PutReturn
    \/ TaskDone

SpecLife == InitLife /\ [][NextLife]_vars

\* ------------------------------------------------- construction and functions
\* nothing is constructed, nothing is called
InitFns ==
    /\ InitLife
    /\ ~input_file
    /\ ~probe_system
    /\ raw_output = 0
    /\ ~database
    /\ ~config_known_devices
    /\ cmds = <<>>

NextFns ==
    \/ \E enforce_known_list \in BOOLEAN, known_list, block_list \in ListInputs :
          CallSelect(enforce_known_list, known_list, block_list)
    \/ \E len \in LenInputs, payload \in PayloadInputs :
          CallIsValid(len, payload)

SpecFns == InitFns /\ [][NextFns]_vars

\* ------------------------------------------------------------ the duty cycle
\* the ceiling is the default, or a small one
InitDuty ==
    /\ input_file = FALSE
    /\ probe_system = TRUE
    /\ raw_output = 0
    /\ database = FALSE
    /\ config_device_whitelist = FALSE
    /\ config_known_devices = FALSE
    /\ device_whitelist = {}
    /\ device_blacklist = {}
    /\ known_devices = EmptyMap
    /\ cmds = <<>>
    /\ cmd_que = {}
    /\ n_put = 0
    /\ buffer = <<>>
    /\ pc = "idle"
    /\ cmd = 0
    /\ timeout_1 = 0
    /\ timeout_2 = 0
    /\ now = 0
    /\ in_waiting = 0
    /\ puts = <<>>
    /\ written = {}
    /\ overtaken = {}
    /\ open = {}
    /\ rx = NoRx
    /\ acked = {}
    /\ gaveup = {}
    /\ done = {}
    /\ put_error = "none"
    /\ rpc = "get"
    /\ pkt = NoPkt
    /\ calls = <<>>
    /\ LifeInit
    /\ FnsInit
    /\ clock = 0
    /\ sent = <<>>
    /\ max_duty_cycle \in {MAX_DUTY_CYCLE, 6, 3}

NextDuty ==
    \/ \E n \in LineLens : DutyPut(n)
    \/ DutyTick(20000)

SpecDuty == InitDuty /\ [][NextDuty]_vars

\* a gateway is constructed
NextInit ==
    \E port, input, probe, execute, log, known \in BOOLEAN, raw \in 0..3 :
        GatewayInit(port, input, probe, execute, raw, log, known)

SpecInit == InitFns /\ [][NextInit]_vars

\* ------------------------------------------ a schedule request and the filter
\* the known_devices file: none, or one that blocks the controller and
\* names another controller
AckKnown == {{}, {[id |-> CTL, blacklist |-> TRUE],
                  [id |-> OTH, blacklist |-> FALSE]}}

\* the packets received while the request is pending: the reply, the same
\* reply sent to another device, an RP of the other controller, and packets
\* that are not an RP, not valid or not decoded
AckInputs ==
    {ScheduleReply,
     [ScheduleReply EXCEPT !.dst = FAN],
     [ScheduleReply EXCEPT !.src = OTH, !.dst = FAN],
     [ScheduleReply EXCEPT !.verb = " I"],
     [ScheduleReply EXCEPT !.is_valid = FALSE],
     [ScheduleReply EXCEPT !.msg_valid = FALSE]}

\* a probing gateway on a serial port, after start has read the
\* known_devices file, with a schedule request to the controller queued
InitAck ==
    /\ input_file = FALSE
    /\ probe_system = TRUE
    /\ raw_output \in {0, 2, 3}
    /\ config_device_whitelist \in BOOLEAN
    /\ config_known_devices = TRUE
    /\ \E kd \in AckKnown :
          /\ device_whitelist = Whitelist(kd, config_device_whitelist)
          /\ device_blacklist = Blacklist(kd, config_device_whitelist)
          /\ known_devices = KnownMap(kd)
    /\ cmds = <<GetSchedule>>
    /\ cmd_que = {1}
    /\ n_put = 1
    /\ buffer = <<>>
    /\ pc = "idle"
    /\ cmd = 0
    /\ timeout_1 = 0
    /\ timeout_2 = 0
    /\ now = 0
    /\ in_waiting = 0
    /\ puts = <<>>
    /\ written = {}
    /\ overtaken = {}
    /\ open = {}
    /\ rx = NoRx
    /\ acked = {}
    /\ gaveup = {}
    /\ done = {}
    /\ put_error = "none"
    /\ database = FALSE
    /\ rpc = "get"
    /\ pkt = NoPkt
    /\ calls = <<>>
    /\ ts_pkt = NoLine
    /\ n_lines = 0
    /\ spc = "tasks"
    /\ cleaned = <<>>
    /\ archive = "none"
    /\ saved = NoFile
    /\ evo_devices = {}
    /\ sigs = <<>>
    /\ FnsInit
    /\ DutyInit

NextAck ==
    \/ PortWriter
    \/ Loop
    \/ StartRq
    \/ Outer
    \/ PutRqReturn
    \/ SleepReturn
    \/ TaskDone
    \/ Sleep
    \/ SerialBytes
    \/ \E p \in AckInputs : ProcessPkt(p)

SpecAck == InitAck /\ [][NextAck]_vars

\* the destination of the pending request is blocked, or is missing from a
\* whitelist that is in force
ReplierFilteredOut ==
    /\ buffer # <<>>
    /\ \/ cmds[buffer[1]].dest \in device_blacklist
       \/ device_whitelist # {} /\ cmds[buffer[1]].dest \notin device_whitelist

(* C36, as claimed: a packet clears the pending request only if it is valid,
   admitted by the device filter and decoded to a valid message while
   raw_output is at most 2; with raw_output 3, or with the request's
   destination filtered out, no packet clears the buffer, and the request is
   written three times and given up. *)
C36Claim ==
    /\ [][acked' # acked =>
            /\ rx'.pkt.is_valid /\ rx'.pkt.msg_valid /\ raw_output <= 2
            /\ has_wanted_device(rx'.pkt, device_whitelist, device_blacklist)]_vars
    /\ [][(raw_output = 3 \/ ReplierFilteredOut) => acked' = acked]_vars
    /\ []((raw_output = 3 /\ pc = "task_done") =>
            (cmd \in gaveup /\ Len(puts) = 3))

\* ----------------------------------------------------------------- scripts
\* the gateway, which the scripts and the test wrapper leave alone
gateway == <<cfg, cmds, cmd_que, buffer, dsp, now, in_waiting, puts, rx,
             hist, enq, inb, life, config, call, duty>>

\* Command._puzzle(message=...)
Puzzle(message) == [verb |-> " I", code |-> "7FFF", text |-> message, arg |-> 0]

\* _mk_cmd(RQ, f"{code:04X}", "0000", dev_id), and
\* Command.get_opentherm_data(dev_id, msg_id)
ScanCmd(c, n) == [verb |-> "RQ", code |-> c, text |-> "", arg |-> n]

\* the decorated scripts: script_scan_hard sleeps after every command,
\* script_scan_otb_hard sends all its commands without an await
Scripts == {"scan_hard", "scan_otb_hard"}

\* wrapper(gwy, *args) of script_decorator: it sends the first marker, calls
\* fnc, which is an async def and hands back a coroutine none of whose
\* statements has run, and sends the second marker
Wrapper(name, start_code) ==
    /\ sends' = sends \o <<Puzzle("Script begins:"), Puzzle("Script done.")>>
    /\ script' = [name |-> name, pc |-> "created", code |-> start_code]

\* spawn_scripts: script = SCRIPTS.get(...);
\* tasks += [gwy._loop.create_task(script(gwy, kwargs[EXEC_SCR][1]))]
SpawnScripts(name, start_code) ==
    /\ script.pc = "none"
    /\ Wrapper(name, start_code)
    /\ UNCHANGED <<gateway, wrapper, left>>

\* the task of script_scan_hard runs to its next await:
\* for code in range(start_code, 0x5000): gwy.send_cmd(...); await sleep(...)
ScanHard ==
    /\ script.name = "scan_hard"
    /\ script.pc \in {"created", "sleep"}
    /\ IF script.code < MaxCode
       THEN /\ sends' = Append(sends, ScanCmd("scan", script.code))
            /\ script' = [script EXCEPT !.pc = "sleep", !.code = @ + 1]
       ELSE /\ script' = [script EXCEPT !.pc = "done"]
            /\ UNCHANGED sends
    /\ UNCHANGED <<gateway, wrapper, left>>

\* the task of script_scan_otb_hard runs to its end:
\* for msg_id in range(0x80): gwy.send_cmd(...)
ScanOtbHard ==
    /\ script.name = "scan_otb_hard"
    /\ script.pc = "created"
    /\ sends' = sends \o [i \in 1..MaxCode |-> ScanCmd("3220", i - 1)]
    /\ script' = [script EXCEPT !.pc = "done", !.code = MaxCode]
    /\ UNCHANGED <<gateway, wrapper, left>>

InitScripts == InitFns

NextScripts ==
    \/ \E name \in Scripts, start_code \in 0..(MaxCode - 1) :
          SpawnScripts(name, IF name = "scan_hard" THEN start_code ELSE 0)
    \/ ScanHard
    \/ ScanOtbHard

SpecScripts == InitScripts /\ [][NextScripts]_vars

\* where the markers and the commands of the script are in the order of the
\* calls of send_cmd
Begins == {i \in 1..Len(sends) : sends[i] = Puzzle("Script begins:")}
Dones == {i \in 1..Len(sends) : sends[i] = Puzzle("Script done.")}
Sent == {i \in 1..Len(sends) : sends[i].verb = "RQ"}

(* C38, as claimed: the marker "Script begins:" is enqueued before every
   command of the script and the marker "Script done." after all of them,
   also when the script sends its commands across awaits. *)
C38Claim ==
    /\ \A i \in Sent : \E b \in Begins : b < i
    /\ \A i \in Sent : \E d \in Dones : i < d

\* ------------------------------------------------- the virtual RF network
\* rf, gwy_0, gwy_1 = _rf_net_create(schema_0, schema_1): the network is
\* created and started, the gateways are created
RfNetCreate ==
    /\ wrapper.pc = "idle"
    /\ Len(left) < MaxTests
    /\ wrapper' = [pc |-> "start", rf |-> "running",
                   gwys |-> <<"created", "created">>, result |-> "none"]
    /\ UNCHANGED <<gateway, script, sends, left>>

\* the first gateway in the state st (0: none)
First(st) ==
    IF \E i \in 1..2 : wrapper.gwys[i] = st
    THEN CHOOSE i \in 1..2 :
            wrapper.gwys[i] = st /\ \A j \in 1..(i - 1) : wrapper.gwys[j] # st
    ELSE 0

\* await gwy_0.start(); await gwy_1.start(): the call returns, or it raises
\* and the exception leaves the wrapper
GwyStart(ok) ==
    /\ wrapper.pc = "start"
    /\ LET i == First("created")
       IN  IF ok
           THEN wrapper' = [wrapper EXCEPT
                               !.gwys[i] = "started",
                               !.pc = IF i = 2 THEN "fnc" ELSE "start"]
           ELSE wrapper' = [wrapper EXCEPT !.pc = "raised"]
    /\ UNCHANGED <<gateway, script, sends, left>>

\* try: return await fnc(gwy_0, gwy_1, ...): the test body returns, or one
\* of its asserts raises; finally: is entered either way
Fnc(result) ==
    /\ wrapper.pc = "fnc"
    /\ wrapper' = [wrapper EXCEPT !.result = result, !.pc = "stop"]
    /\ UNCHANGED <<gateway, script, sends, left>>

\* _rf_net_cleanup: for gwy in gwys: await gwy.stop()
GwyStop(ok) ==
    /\ wrapper.pc = "stop"
    /\ LET i == First("started")
       IN  IF ok
           THEN wrapper' = [wrapper EXCEPT
                               !.gwys[i] = "stopped",
                               !.pc = IF i = 2 THEN "rf_stop" ELSE "stop"]
           ELSE wrapper' = [wrapper EXCEPT !.pc = "raised"]
    /\ UNCHANGED <<gateway, script, sends, left>>

\* _rf_net_cleanup: await rf.stop(); the wrapper then returns what the body
\* returned, or raises what the body raised
RfStop(ok) ==
    /\ wrapper.pc = "rf_stop"
    /\ IF ok
       THEN wrapper' = [wrapper EXCEPT
                           !.rf = "stopped",
                           !.pc = IF wrapper.result = "returned"
                                  THEN "returned" ELSE "raised"]
       ELSE wrapper' = [wrapper EXCEPT !.pc = "raised"]
    /\ UNCHANGED <<gateway, script, sends, left>>

\* the wrapper has ended
Ended == wrapper.pc \in {"returned", "raised"}

\* the test runner goes on to the next test
NextTest ==
    /\ Ended
    /\ left' = Append(left, [rf |-> wrapper.rf, gwys |-> wrapper.gwys])
    /\ wrapper' = NoNet
    /\ UNCHANGED <<gateway, script, sends>>

InitNet == InitFns

NextNet ==
    \/ RfNetCreate
    \/ \E ok \in BOOLEAN : GwyStart(ok)
    \/ \E result \in {"returned", "raised"} : Fnc(result)
    \/ \E ok \in BOOLEAN : GwyStop(ok)
    \/ \E ok \in BOOLEAN : RfStop(ok)
    \/ NextTest

SpecNet == InitNet /\ [][NextNet]_vars

\* a gateway is started and not stopped, or the network is running
LeftRunning(w) == w.rf = "running" \/ \E i \in 1..2 : w.gwys[i] = "started"

(* C39, as claimed: both gateways are started before the test body runs; the
   network is stopped only after every gateway is stopped; and when the
   wrapper ends, on any path, no gateway is left started and the network is
   not left running. *)
C39Claim ==
    /\ wrapper.pc = "fnc" => \A i \in 1..2 : wrapper.gwys[i] = "started"
    /\ wrapper.rf = "stopped" => \A i \in 1..2 : wrapper.gwys[i] = "stopped"
    /\ Ended => ~LeftRunning(wrapper)

\* ------------------------------------------------ the dispatcher's progress
\* a request of low priority
LowScan == [GetFaultLog EXCEPT !.qos = QOS_SCAN]

\* another task puts one more command like the i-th, which is done, on the
\* queue. The queue tells such commands apart by their time of enqueueing
\* only; the index stands for that time, so the command is put again only
\* when no later command of its priority is waiting.
Flood(i) ==
    /\ pc \in AwaitPcs
    /\ i \in 1..Len(cmds)
    /\ i \in done
    /\ i \notin cmd_que
    /\ \A b \in cmd_que :
          b > i => cmds[b].qos.priority # cmds[i].qos.priority
    /\ ~QueueFull(cmd_que)
    /\ cmd_que' = cmd_que \cup {i}
    /\ rx' = NoRx
    /\ UNCHANGED <<cfg, cmds, buffer, dsp, now, in_waiting, puts, hist, enq,
                   inb, ext>>

\* some task puts a command again
Flooding == \E i \in 1..MaxCmds : Flood(i)

\* a probing gateway on a serial port
InitLive ==
    /\ Init
    /\ ~input_file
    /\ probe_system
    /\ raw_output = 0

NextLive ==
    \/ \E c \in {GetSchedule, LowScan} : Enqueue(c)
    \/ Flooding
    \/ PortWriter
    \/ Loop
    \/ StartRq
    \/ Outer
    \/ PutRqReturn
    \/ SleepReturn
    \/ SendCmd
    \/ PutReturn
    \/ TaskDone
    \/ Sleep
    \/ SerialBytes
    \/ ProcessPkt(ScheduleReply)

\* the event loop resumes a task that is ready, put_pkt returns, and the
\* time of a sleep passes; port_writer polls every 0.1 s, so it finds
\* in_waiting at 0 if it is 0 again and again
Scheduling ==
    /\ SF_vars(PortWriter)
    /\ WF_vars(Loop)
    /\ WF_vars(StartRq)
    /\ WF_vars(Outer)
    /\ WF_vars(PutRqReturn)
    /\ WF_vars(SleepReturn)
    /\ WF_vars(SendCmd)
    /\ WF_vars(PutReturn)
    /\ WF_vars(TaskDone)
    /\ WF_vars(Sleep)

SpecLive == InitLive /\ [][NextLive]_vars /\ Scheduling

\* every command on the queue is taken by the dispatcher
Dequeued == \A i \in 1..MaxCmds : (i \in cmd_que) ~> (cmd = i)

\* the pending buffer is emptied
Unblocked == (buffer # <<>>) ~> (buffer = <<>>)

(* C35, as claimed: if in_waiting is 0 again and again, every command on the
   queue is taken by the dispatcher, and a pending RQ 0404 does not stay in
   the buffer forever. *)
C35Claim == ([]<>(in_waiting = 0)) => (Dequeued /\ Unblocked)

(* C35, amended: the same, provided that from some time on no task puts a
   further command on the queue ahead of those that wait. *)
C35_Progress ==
    (([]<>(in_waiting = 0)) /\ <>[][~Flooding]_vars) => (Dequeued /\ Unblocked)

\* the dispatcher has taken the request of low priority, after it gave up
\* the schedule request that was ahead of it
C35Witness ==
    /\ cmd = 2
    /\ pc = "branch"
    /\ cmds[2] = LowScan
    /\ 1 \in gaveup

====
